---- MODULE Spec2Model ----
(***************************************************************************)
(* A model of barterbackup's node orchestrator (package node: Node.Start,  *)
(* Node.Stop, Node.getConn, the idle evictor) running over the in-memory   *)
(* transport (package netmock: MockNetwork.Register / Dial).               *)
(*                                                                         *)
(* Time is counted in whole minutes: the evictor's ticker period is one    *)
(* minute and the idle threshold is five.  Every critical section of       *)
(* Node.mu is two steps (acquire, then body with release), so the states   *)
(* in which the lock is held are visible; the read-locked lookup at the    *)
(* top of getConn is one step that needs the lock free of writers.         *)
(*                                                                         *)
(* Further parts model the daemon (package bbdapp: Run, acquireDirLock,    *)
(* cliService.Unlock), key derivation (package keys), the pinned control   *)
(* plane handshake (package clitls), the peer link with HealthCheck        *)
(* (package bbnode) and the Tor transport (package nettor).  Each part has *)
(* its own next-state relation and leaves the other parts' variables       *)
(* unchanged.                                                              *)
(***************************************************************************)
EXTENDS Integers, FiniteSets, Sequences, TLC

\* ------------------------------------------------------------------ bounds
MaxClock == 6
MaxConns == 2
MaxStarts == 2
MaxTasks == 3
MaxInodes == 3
KeyBytes == 2
MaxTor == 2
MaxRegs == 3
HkdfBlocks == 3
MaxUptime == 8
MaxLockClock == 1

\* ------------------------------------------------------- program constants
IdleMinutes == 5
TickerMinutes == 1

\* ------------------------------------------------------------ finite sets
Dialers == {1, 2}
Callers == {1, 2}
SelfAddr == "a1"
PeerAddr == "a2"
Addrs == {"a1", "a2"}
Servers == 1..MaxStarts

NoConn == [a |-> "none", id |-> 0]
NoEntry == [conn |-> NoConn, lastUsed |-> 0]
Free == [kind |-> "free", id |-> 0]
Holder(k, i) == [kind |-> k, id |-> i]

VARIABLES
    now,        \* time.Now(), in minutes
    nodes,      \* MockNetwork.nodes: address -> 0 (absent), -1 (another node), k (this node's server k)
    peerReg,    \* addresses for which another node holds an unregister closure
    serving,    \* grpc servers of this node whose Serve goroutine is running
    nsrv,       \* grpc servers this node has created so far
    stop,       \* Node.stop: 0 (nil) or k, the unregister closure of server k
    unreg,      \* how often unregister closure k has been invoked
    conns,      \* Node.conns
    nconn,      \* grpc client connections dialed so far
    closed,     \* client connections on which Close was called
    mu,         \* Node.mu (write side): Free or the holder
    evictStop,  \* Node.evictStop: 0 (nil) or channel k
    evictDone,  \* Node.evictDone: 0 (nil) or channel k
    stopClosed, \* closed stop channels
    doneClosed, \* closed done channels
    ev,         \* evictor goroutine k: [pc, cutoff, tick]
    dl,         \* getConn callers: [pc, addr, conn (dialed), ret (returned; NoConn with an error), conc]
    lc,         \* Start/Stop callers: [pc, ret, srv, ch]
    raced,      \* history: two Start/Stop calls have overlapped
    stopped,    \* history: a Stop that did its work has returned
    lateCall    \* history: a getConn call began on a node that Stop had stopped

VARIABLES
    fpFile,     \* <dataDir>/fingerprint.txt: [exists, data]
    svcMu,      \* cliService.mu (write side): Free or the holder
    svcNode,    \* cliService.node: 0 (nil) or t, the Node built by start task t
    ul,         \* Unlock handlers, one per control-plane client: [pc, pw, ret, task]
    tasks,      \* the goroutines Unlock starts: [pc, pw, retry (history: launched after one for pw failed)]
    ntask       \* start goroutines launched so far

baseVars == <<now, nodes, peerReg, serving, nsrv, stop, unreg, conns, nconn, closed,
              mu, evictStop, evictDone, stopClosed, doneClosed, ev, dl, lc, raced, stopped, lateCall>>

VARIABLES
    cliDir,     \* <dataDir>/cli-keys: [dir (exists), lock (inode of .lock, 0: none),
                \*   clientKey, serverPub (the daemon that wrote the file, 0: none)]
    ninode,     \* lock files created so far
    flockOf,    \* inode -> the daemon process holding its flock, 0: nobody
    dmn         \* daemon processes: [pc, fd (inode its lock file descriptor is open on), addr, ret]

VARIABLES
    hs          \* one control-plane connection attempt: [pc, expClient, srvCert, expServer, cliCert,
                \*   cliFinished (the client sent its Finished), cliReady (grpc.DialContext
                \*   returned a connection), srvReady (the server accepted the connection)]

VARIABLES
    netNodes,   \* MockNetwork.nodes of the shared transport: address -> registered server, 0: none
    up,         \* the nodes whose Start has succeeded and that were not stopped since
    peerConns,  \* Node.conns of each node: address -> [open (an entry exists), srv (the server
                \*   its transport is connected to, 0: not connected)]
    hc,         \* the outcome of each node's last DialPeer or HealthCheck call:
                \*   [op, to, ok, client, server]
    outsider    \* history: a server that is no Node has registered on the transport

VARIABLES
    entropy,    \* what differs from call to call: time, process, machine, crypto/rand
    derived     \* the two most recent derivations, oldest first:
                \*   [by, at (entropy at the call), pw, purpose, master, err, priv, pub, addr]

VARIABLES
    torNet,     \* TorNetwork: [built, dataDir, t (tNet.t: 0 nil, or a tor instance)]
    ntor,       \* tor instances started so far
    torOpen,    \* tor instances that are running
    reg,        \* the Register call: [pc, inst, ret]
    registered, \* history: the tor instances whose Register succeeded
    dial        \* the last Dial call: [addr, ret, after (what the last Register had returned)]

VARIABLES
    mock        \* a MockNetwork and its users: [nodes (MockNetwork.nodes: address -> registration,
                \*   0: none), nreg (registrations made), addrOf, open (registrations whose
                \*   listener is open), called (registrations whose unregister was called),
                \*   un (unregister closures between delete and srv.Stop), dial (the Dial call)]

VARIABLES
    shut        \* Run's shutdown of the daemon the Unlock handlers belong to:
                \*   [pc, seen (svc.node as Run read it), stopped (the Nodes that were stopped)]

VARIABLES
    held        \* the secrets in the Node's fields: [masterPriv, priv]

VARIABLES
    kf          \* the control-plane key directory and its reader:
                \*   [serverPub, clientKey (the files), wrote, clean, ret (of the last ReadKeys)]

VARIABLES
    lhc         \* a Node answering LocalHealthCheck: [clock (ticks), addr, startedAt, calls]

VARIABLES
    link        \* a started Node's peer-link server and one client of it:
                \*   [addr, cert (presented), accepted, state (of the connection), ctx, resp (last call)]

unlockVars == <<fpFile, svcMu, svcNode, ul, tasks, ntask>>
daemonVars == <<cliDir, ninode, flockOf, dmn>>
pinVars == <<hs>>
peerVars == <<netNodes, up, peerConns, hc, outsider>>
keyVars == <<entropy, derived>>
torVars == <<torNet, ntor, torOpen, reg, registered, dial>>
mockVars == <<mock>>
shutVars == <<shut>>
heldVars == <<held>>
kfVars == <<kf>>
lhcVars == <<lhc>>
linkVars == <<link>>

extVars == <<unlockVars, daemonVars, pinVars, peerVars, keyVars, torVars, mockVars, shutVars, heldVars, kfVars, lhcVars, linkVars>>

\* What the steps of one part leave unchanged: every other part.
unlockRest == <<baseVars, daemonVars, pinVars, peerVars, keyVars, torVars, mockVars, shutVars,
                heldVars, kfVars, lhcVars, linkVars>>
daemonRest == <<baseVars, unlockVars, pinVars, peerVars, keyVars, torVars, mockVars, shutVars,
                heldVars, kfVars, lhcVars, linkVars>>
pinRest == <<baseVars, unlockVars, daemonVars, peerVars, keyVars, torVars, mockVars, shutVars,
             heldVars, kfVars, lhcVars, linkVars>>
peerRest == <<baseVars, unlockVars, daemonVars, pinVars, keyVars, torVars, mockVars, shutVars,
              heldVars, kfVars, lhcVars, linkVars>>
keyRest == <<baseVars, unlockVars, daemonVars, pinVars, peerVars, torVars, mockVars, shutVars,
             heldVars, kfVars, lhcVars, linkVars>>
torRest == <<baseVars, unlockVars, daemonVars, pinVars, peerVars, keyVars, mockVars, shutVars,
             heldVars, kfVars, lhcVars, linkVars>>
mockRest == <<baseVars, unlockVars, daemonVars, pinVars, peerVars, keyVars, torVars, shutVars,
              heldVars, kfVars, lhcVars, linkVars>>
shutRest == <<baseVars, unlockVars, daemonVars, pinVars, peerVars, keyVars, torVars, mockVars,
              heldVars, kfVars, lhcVars, linkVars>>
heldRest == <<baseVars, unlockVars, daemonVars, pinVars, peerVars, keyVars, torVars, mockVars,
              shutVars, kfVars, lhcVars, linkVars>>
kfRest == <<baseVars, unlockVars, daemonVars, pinVars, peerVars, keyVars, torVars, mockVars,
            shutVars, heldVars, lhcVars, linkVars>>
lhcRest == <<baseVars, unlockVars, daemonVars, pinVars, peerVars, keyVars, torVars, mockVars,
             shutVars, heldVars, kfVars, linkVars>>
linkRest == <<baseVars, unlockVars, daemonVars, pinVars, peerVars, keyVars, torVars, mockVars,
              shutVars, heldVars, kfVars, lhcVars>>

vars == <<baseVars, extVars>>

netVars == <<nodes, peerReg, serving>>
poolVars == <<conns, closed>>
chanVars == <<evictStop, evictDone, stopClosed, doneClosed>>
histVars == <<raced, stopped, lateCall>>

IdleDialer == [pc |-> "idle", addr |-> "none", conn |-> NoConn, ret |-> NoConn, conc |-> {}]
IdleCaller == [pc |-> "idle", ret |-> "none", srv |-> 0, ch |-> 0]
NoEvictor == [pc |-> "none", cutoff |-> 0, tick |-> FALSE]

\* -------------------------------------------------------- key derivation
\* Byte strings are sequences of numbers below ByteMod.  The hash functions
\* are small mixing functions: what matters of SHA-256, Argon2id and HKDF is
\* that the output is a function of the listed inputs and of nothing else.
ByteMod == 256

Passwords == {"pw1", "pw2"}

\* []byte(s) for the strings the model uses.
Bytes(str) ==
    CASE str = "" -> <<>>
      [] str = "pw1" -> <<112, 1>>
      [] str = "pw2" -> <<112, 2>>
      [] str = "deriveMasterPriv" -> <<100, 77>>
      [] str = "deriveKey" -> <<100, 75>>
      [] str = "fingerprint" -> <<102>>
      [] str = "tor/onion/v3" -> <<116, 3>>

RECURSIVE Mix(_, _)
Mix(bytes, acc) ==
    IF bytes = <<>> THEN acc
    ELSE Mix(Tail(bytes), (acc * 5 + Head(bytes) + 1) % ByteMod)

\* sha256.Sum256, shortened to KeyBytes bytes.
Sum256(bytes) == [i \in 1..KeyBytes |-> Mix(bytes \o <<i>>, 3)]

\* argon2.IDKey(password, salt, ..., keyLen).
IDKey(password, salt, keyLen) == [i \in 1..keyLen |-> Mix(password \o salt \o <<i>>, 11)]

\* A master secret salted with what is at hand at the call.
DeriveMasterPriv_Salted(seed) == IDKey(Bytes(seed), <<entropy>>, KeyBytes)

\* DeriveMasterPriv (derive.go:15-28); keyLen = 64 is shortened to KeyBytes.
DeriveMasterPriv(seed) ==
    LET in == Bytes(seed)
        h1 == Sum256(in)
        h2 == Sum256(Bytes("deriveMasterPriv"))
        salt == Sum256(h1 \o h2)
    IN  IDKey(in, salt, KeyBytes)

\* The most an HKDF reader gives: 255 blocks of the hash's size, shortened
\* here to HkdfBlocks blocks of KeyBytes.
HkdfLimit == HkdfBlocks * KeyBytes

\* hkdf.New(sha256.New, masterPriv, "deriveKey", purpose) and one Read of
\* keyLen bytes: the count read, the error and the bytes.  A read past the
\* limit reads nothing and fails.
HkdfRead(masterPriv, salt, info, keyLen) ==
    IF keyLen > HkdfLimit THEN [n |-> 0, err |-> TRUE, key |-> <<>>]
    ELSE [n |-> keyLen, err |-> FALSE,
          key |-> [i \in 1..keyLen |-> Mix(masterPriv \o salt \o info \o <<i>>, 7)]]

\* The error DeriveKey returns (derive.go:35-41).
DeriveKeyErr(masterPriv, purpose, keyLen) ==
    LET r == HkdfRead(masterPriv, Bytes("deriveKey"), Bytes(purpose), keyLen)
    IN  r.err \/ r.n # keyLen

\* DeriveKey (derive.go:32-44): the key, nil with an error.
DeriveKey(masterPriv, purpose, keyLen) ==
    LET r == HkdfRead(masterPriv, Bytes("deriveKey"), Bytes(purpose), keyLen)
    IN  IF r.err THEN <<>>
        ELSE IF r.n # keyLen THEN <<>>
        ELSE r.key

\* ed25519.NewKeyFromSeed(seed).Public(): a one-to-one function of the seed.
PublicOf(priv) == [i \in 1..Len(priv) |-> (priv[i] * 3 + 1) % ByteMod]

NoKeys == [err |-> TRUE, priv |-> <<>>, pub |-> <<>>]

\* A derivation that takes any master secret.
DeriveEd25519FromMaster_NoCheck(masterPriv, purpose) ==
    LET seed == DeriveKey(masterPriv, purpose, KeyBytes)
    IN  [err |-> FALSE, priv |-> seed, pub |-> PublicOf(seed)]

\* DeriveEd25519FromMaster (derive.go:52-64).
DeriveEd25519FromMaster(masterPriv, purpose) ==
    IF Len(masterPriv) = 0 THEN NoKeys
    ELSE IF DeriveKeyErr(masterPriv, purpose, KeyBytes) THEN NoKeys
    ELSE LET seed == DeriveKey(masterPriv, purpose, KeyBytes)
         IN  [err |-> FALSE, priv |-> seed, pub |-> PublicOf(seed)]

\* torutil.OnionServiceIDFromV3PublicKey(pub) + ".onion" (part_008:136-137).
OnionAddr(pub) == pub \o <<".onion">>

\* ------------------------------------------------------ fingerprint file
HexDigits == <<"0", "1", "2", "3", "4", "5", "6", "7", "8", "9", "a", "b", "c", "d", "e", "f">>

\* fmt.Sprintf("%x", fp) (app.go:220).
RECURSIVE Hex(_)
Hex(bytes) ==
    IF bytes = <<>> THEN <<>>
    ELSE <<HexDigits[(Head(bytes) \div 16) + 1], HexDigits[(Head(bytes) % 16) + 1]>> \o Hex(Tail(bytes))

Space == {" ", "\n", "\t", "\r"}

RECURSIVE TrimLeft(_)
TrimLeft(txt) == IF txt # <<>> /\ Head(txt) \in Space THEN TrimLeft(Tail(txt)) ELSE txt

RECURSIVE TrimRight(_)
TrimRight(txt) ==
    IF txt # <<>> /\ txt[Len(txt)] \in Space THEN TrimRight(SubSeq(txt, 1, Len(txt) - 1)) ELSE txt

\* A comparison of the raw file content.
TrimSpace_None(txt) == txt

\* strings.TrimSpace (app.go:222).
TrimSpace(txt) == TrimRight(TrimLeft(txt))

\* hexfp of Unlock (app.go:215-220).
HexFingerprint(pw) == Hex(DeriveKey(DeriveMasterPriv(pw), "fingerprint", KeyBytes))

NoFile == [exists |-> FALSE, data |-> <<>>]
FileOf(txt) == [exists |-> TRUE, data |-> txt]

\* ------------------------------------------------------------ unlock gate
Clients == {1, 2}
Tasks == 1..MaxTasks
IdleUnlock == [pc |-> "idle", pw |-> "", ret |-> "none", task |-> 0]
NoTask == [pc |-> "none", pw |-> "", retry |-> FALSE]

UnlockInit ==
    /\ fpFile = NoFile
    /\ svcMu = Free
    /\ svcNode = 0
    /\ ul = [c \in Clients |-> IdleUnlock]
    /\ tasks = [t \in Tasks |-> NoTask]
    /\ ntask = 0

\* ------------------------------------------------------ daemon processes
Daemons == {1, 2}
CLIAddrs == {"127.0.0.1:9911", "127.0.0.1:9912"}
Inodes == 1..MaxInodes
NoDir == [dir |-> FALSE, lock |-> 0, clientKey |-> 0, serverPub |-> 0]
Off(ret) == [pc |-> "off", fd |-> 0, addr |-> "none", ret |-> ret]

DaemonInit ==
    /\ cliDir = NoDir
    /\ ninode = 0
    /\ flockOf = [i \in Inodes |-> 0]
    /\ dmn = [p \in Daemons |-> Off("none")]

\* ------------------------------------------------- control-plane handshake
\* Private keys that GenerateEd25519 (clitls.go) can return.
CtlKeys == {<<1>>, <<2>>, <<3>>}
CtlPubs == {PublicOf(k) : k \in CtlKeys}
KeyAlgs == {"ed25519", "ecdsa"}

\* The leaf certificate a peer presents: the type of its public key and the key.
CertOf(alg, priv) == [alg |-> alg, pub |-> PublicOf(priv)]

NoHandshake == [pc |-> "idle", expClient |-> <<>>, srvCert |-> CertOf("ed25519", <<>>),
                expServer |-> <<>>, cliCert |-> CertOf("ed25519", <<>>),
                cliFinished |-> FALSE, cliReady |-> FALSE, srvReady |-> FALSE]

PinInit == hs = NoHandshake

\* ------------------------------------------------------------ peer plane
PeerNodes == {1, 2}
Outsider == 3
PwOf(n) == IF n = 1 THEN "pw1" ELSE "pw2"

\* The onion key pair New derives for a node (part_008:131-137).
NodeKeys(n) == DeriveEd25519FromMaster(DeriveMasterPriv(PwOf(n)), "tor/onion/v3")
\* Node.Address().
NodeAddr(n) == OnionAddr(NodeKeys(n).pub)
\* A key pair that belongs to no node.
OutsiderKey == <<9, 9>>
OutsiderAddr == OnionAddr(PublicOf(OutsiderKey))

PeerAddrs == {NodeAddr(n) : n \in PeerNodes}
NoPeerConn == [open |-> FALSE, srv |-> 0]
NoAnswer == [op |-> "none", to |-> <<>>, ok |-> FALSE, client |-> <<>>, server |-> <<>>]

PeerInit ==
    /\ netNodes = [a \in PeerAddrs |-> 0]
    /\ up = {}
    /\ peerConns = [n \in PeerNodes |-> [a \in PeerAddrs |-> NoPeerConn]]
    /\ hc = [n \in PeerNodes |-> NoAnswer]
    /\ outsider = FALSE

\* --------------------------------------------------------- key derivation
Entropy == 0..KeyBytes
Seeds == Passwords \cup {""}
Purposes == {"tor/onion/v3", "fingerprint"}

KeyInit ==
    /\ entropy = 0
    /\ derived = <<>>

\* -------------------------------------------------------------- tor plane
TorInsts == 1..MaxTor
DataDirs == {"", "tor-data"}
NoReg == [pc |-> "idle", inst |-> 0, ret |-> "none"]
\* Addresses are sequences of pieces of text, so that a search for ".onion"
\* or ":" is a search and not a table: an onion host without and with a port,
\* one with blanks around it, other hosts, and a host of another domain whose
\* name has an onion label inside.
NoDial == [addr |-> <<>>, ret |-> "none", after |-> "none", target |-> <<>>]
DialAddrs == {<<"peer", ".onion">>,
              <<"peer", ".onion", ":", "80">>,
              <<"peer", ".onion", ":", "9735">>,
              <<" ", "peer", ".onion", "\n">>,
              <<"example", ".com">>,
              <<"example", ".com", ":", "80">>,
              <<"peer", ".onion", ".example", ".com">>,
              <<"peer">>}

TorInit ==
    /\ torNet = [built |-> FALSE, dataDir |-> "", t |-> 0]
    /\ ntor = 0
    /\ torOpen = {}
    /\ reg = NoReg
    /\ registered = {}
    /\ dial = NoDial

\* ------------------------------------------------------ in-memory backend
Regs == 1..MaxRegs
NoMockDial == [pc |-> "idle", addr |-> "none", svc |-> 0, live |-> FALSE, ret |-> "none"]

NoMockReg == [addr |-> "none", id |-> 0, ret |-> "none"]

MockInit ==
    mock = [nodes |-> [a \in Addrs |-> 0], nreg |-> 0, addrOf |-> [i \in Regs |-> "none"],
            open |-> {}, called |-> {}, un |-> {}, dial |-> NoMockDial,
            rejected |-> {}, lastReg |-> NoMockReg]

\* ------------------------------------------------------- daemon shutdown
ShutInit == shut = [pc |-> "running", seen |-> 0, stopped |-> {}]

\* --------------------------------------------------------- node secrets
\* New("pw1", netw) stores the master secret and the identity key in the Node
\* (part_008:131-143); no method of Node assigns either field afterwards.
HeldInit ==
    held = [masterPriv |-> DeriveMasterPriv("pw1"),
            priv |-> DeriveEd25519FromMaster(DeriveMasterPriv("pw1"), "tor/onion/v3").priv]

\* ------------------------------------------------------------- key files
\* ed25519.NewKeyFromSeed(seed): the seed followed by the public key.
PrivateKeyOf(seed) == seed \o PublicOf(seed)
\* PrivateKey.Seed().
SeedOf(priv) == SubSeq(priv, 1, KeyBytes)

KfSeeds == {[i \in 1..KeyBytes |-> c] : c \in {1, 2}}

NoDer == [fmt |-> "junk", alg |-> "none", key |-> <<>>]
\* A file: absent, or text that holds a PEM block or does not.
Absent == [exists |-> FALSE, pem |-> FALSE, type |-> "none", der |-> NoDer]
PemFile(type, der) == [exists |-> TRUE, pem |-> TRUE, type |-> type, der |-> der]
Garbage == [exists |-> TRUE, pem |-> FALSE, type |-> "none", der |-> NoDer]

NoRead == [called |-> FALSE, err |-> FALSE, pub |-> <<>>, priv |-> <<>>]
NoKeysWritten == [pub |-> <<>>, priv |-> <<>>]

KfInit ==
    kf = [serverPub |-> Absent, clientKey |-> Absent, wrote |-> NoKeysWritten,
          clean |-> FALSE, ret |-> NoRead]

\* ------------------------------------------------------ local health check
\* time.Time's resolution is finer than a second: the clock counts ticks.
TicksPerSec == 2
\* The zero time.Time; time.Now() is never the zero time.
ZeroTime == 0

\* New("pw1", net): the address is set, startedAt is the zero time.
LhcInit ==
    lhc = [clock |-> 1,
           addr |-> OnionAddr(DeriveEd25519FromMaster(DeriveMasterPriv("pw1"), "tor/onion/v3").pub),
           startedAt |-> ZeroTime,
           calls |-> <<>>]

\* What a client may present in the handshake: no certificate, or a leaf
\* certificate with a key of either type.
NoCert == [alg |-> "none", pub |-> <<>>]
LinkCerts == {CertOf(alg, k) : alg \in KeyAlgs, k \in CtlKeys} \cup {NoCert}

\* The peer and its AuthInfo in an RPC's context: no peer at all, a nil
\* AuthInfo, credentials.TLSInfo by value or by pointer (which may be nil),
\* or AuthInfo of another type; PeerCertificates holds at most the leaf.
AuthKinds == {"nil", "TLSInfo", "*TLSInfo", "nil *TLSInfo", "other"}
CtxOf(peer, auth, certs) == [peer |-> peer, auth |-> auth, certs |-> certs]
NoCtx == CtxOf(FALSE, "nil", <<>>)
NoResp == [code |-> "none", client |-> <<>>, server |-> <<>>]

\* A Node built from "pw1" and started.
LinkInit ==
    link = [addr |-> OnionAddr(DeriveEd25519FromMaster(DeriveMasterPriv("pw1"), "tor/onion/v3").pub),
            cert |-> NoCert, accepted |-> FALSE, state |-> "idle",
            ctx |-> NoCtx, resp |-> NoResp]

ExtInit ==
    /\ KeyInit
    /\ LinkInit
    /\ MockInit
    /\ ShutInit
    /\ HeldInit
    /\ KfInit
    /\ LhcInit
    /\ UnlockInit
    /\ DaemonInit
    /\ PinInit
    /\ PeerInit
    /\ TorInit

Init ==
    /\ ExtInit
    /\ now = 0
    /\ peerReg = {PeerAddr}
    /\ nodes = [a \in Addrs |-> IF a \in peerReg THEN -1 ELSE 0]
    /\ serving = {}
    /\ nsrv = 0
    /\ stop = 0
    /\ unreg = [k \in Servers |-> 0]
    /\ conns = [a \in Addrs |-> NoEntry]
    /\ nconn = 0
    /\ closed = {}
    /\ mu = Free
    /\ evictStop = 0
    /\ evictDone = 0
    /\ stopClosed = {}
    /\ doneClosed = {}
    /\ ev = [k \in Servers |-> NoEvictor]
    /\ dl = [d \in Dialers |-> IdleDialer]
    /\ lc = [l \in Callers |-> IdleCaller]
    /\ raced = FALSE
    /\ stopped = FALSE
    /\ lateCall = FALSE

\* ------------------------------------------------------------------ time
\* One minute passes; every live ticker puts a tick in its one-slot channel.
Tick ==
    /\ now < MaxClock
    /\ now' = now + TickerMinutes
    /\ ev' = [k \in Servers |->
                IF ev[k].pc \in {"select", "lock", "scan"}
                THEN [ev[k] EXCEPT !.tick = TRUE] ELSE ev[k]]
    /\ UNCHANGED <<netVars, nsrv, stop, unreg, poolVars, nconn, mu, chanVars, dl, lc, histVars>>

\* ------------------------------------------------- other nodes on the net
\* Another node (possibly one built from the same password, hence with this
\* node's address) registers on the shared MockNetwork.
PeerRegister(a) ==
    /\ nodes[a] = 0
    /\ a \notin peerReg
    /\ nodes' = [nodes EXCEPT ![a] = -1]
    /\ peerReg' = peerReg \cup {a}
    /\ UNCHANGED <<now, serving, nsrv, stop, unreg, poolVars, nconn, mu, chanVars, ev, dl, lc, histVars>>

\* The other node's unregister closure: delete(m.nodes, addr).
PeerUnregister(a) ==
    /\ a \in peerReg
    /\ nodes' = [nodes EXCEPT ![a] = 0]
    /\ peerReg' = peerReg \ {a}
    /\ UNCHANGED <<now, serving, nsrv, stop, unreg, poolVars, nconn, mu, chanVars, ev, dl, lc, histVars>>

\* --------------------------------------------------------- Node.getConn
InCall(d) == dl[d].pc # "idle"

\* A lookup that keeps the lock for the rest of the call.
RUnlock_Held(d) == Holder("dial", d)

\* n.mu.RUnlock() after the lookup (part_008:227).
RUnlock(d) == Free

\* pc := n.conns[addr] under RLock (part_008:225-228): the call begins, and
\* the fast path is taken when an entry is present.
GetConnLookup(d, a) ==
    /\ dl[d].pc = "idle"
    /\ mu = Free
    /\ dl' = [e \in Dialers |->
                IF e = d
                THEN [pc |-> IF conns[a] # NoEntry THEN "fastLock" ELSE "dial",
                      addr |-> a, conn |-> NoConn, ret |-> NoConn,
                      conc |-> {x \in Dialers \ {d} : InCall(x)}]
                ELSE IF InCall(e)
                     THEN [dl[e] EXCEPT !.conc = @ \cup {d}]
                     ELSE [dl[e] EXCEPT !.conc = @ \ {d}]]
    /\ mu' = RUnlock(d)
    /\ lateCall' = (lateCall \/ (stopped /\ stop = 0))
    /\ UNCHANGED <<now, netVars, nsrv, stop, unreg, poolVars, nconn, chanVars, ev, lc, raced, stopped>>

\* n.mu.Lock() of the fast path (part_008:230).
GetConnFastLock(d) ==
    /\ dl[d].pc = "fastLock"
    /\ mu = Free
    /\ mu' = Holder("dial", d)
    /\ dl' = [dl EXCEPT ![d].pc = "fastTouch"]
    /\ UNCHANGED <<now, netVars, nsrv, stop, unreg, poolVars, nconn, chanVars, ev, lc, histVars>>

\* The re-check under the write lock (part_008:231-237): refresh lastUsed and
\* return the pooled handle, or fall through to the dial.
GetConnFastTouch(d) ==
    /\ dl[d].pc = "fastTouch"
    /\ mu = Holder("dial", d)
    /\ mu' = Free
    /\ IF conns[dl[d].addr] # NoEntry
       THEN /\ conns' = [conns EXCEPT ![dl[d].addr].lastUsed = now]
            /\ dl' = [dl EXCEPT ![d].pc = "idle", ![d].ret = conns[dl[d].addr].conn]
       ELSE /\ conns' = conns
            /\ dl' = [dl EXCEPT ![d].pc = "dial"]
    /\ UNCHANGED <<now, netVars, nsrv, stop, unreg, closed, nconn, chanVars, ev, lc, histVars>>

\* MockNetwork.Dial (part_008:66-74): the address must be registered.
MockDialOk(a) == nodes[a] # 0

\* grpc.DialContext succeeded (part_008:256-267): a new client connection.
GetConnDial(d) ==
    /\ dl[d].pc = "dial"
    /\ MockDialOk(dl[d].addr)
    /\ nconn < MaxConns
    /\ nconn' = nconn + 1
    /\ dl' = [dl EXCEPT ![d].pc = "pubLock",
                        ![d].conn = [a |-> dl[d].addr, id |-> nconn + 1]]
    /\ UNCHANGED <<now, netVars, nsrv, stop, unreg, poolVars, mu, chanVars, ev, lc, histVars>>

\* The certificate or the blocking dial failed (part_008:245-248, 265-267):
\* unknown address, handshake failure or the context's deadline.
GetConnDialFail(d) ==
    /\ dl[d].pc = "dial"
    /\ dl' = [dl EXCEPT ![d].pc = "idle"]
    /\ UNCHANGED <<now, netVars, nsrv, stop, unreg, poolVars, nconn, mu, chanVars, ev, lc, histVars>>

\* n.mu.Lock() before publishing (part_008:270).
GetConnPubLock(d) ==
    /\ dl[d].pc = "pubLock"
    /\ mu = Free
    /\ mu' = Holder("dial", d)
    /\ dl' = [dl EXCEPT ![d].pc = "publish"]
    /\ UNCHANGED <<now, netVars, nsrv, stop, unreg, poolVars, nconn, chanVars, ev, lc, histVars>>

\* A publish step that never looks for an entry already present.
AlreadyPublished_Never(entry) == FALSE

\* Whether the late dialer finds the address already published (part_008:271).
AlreadyPublished(entry) == entry # NoEntry

\* Publish to the pool if not already present (part_008:271-279).  The winner
\* returns its own connection; the loser unlocks and goes on to discard.
GetConnPublish(d) ==
    /\ dl[d].pc = "publish"
    /\ mu = Holder("dial", d)
    /\ mu' = Free
    /\ IF AlreadyPublished(conns[dl[d].addr])
       THEN /\ conns' = conns
            /\ dl' = [dl EXCEPT ![d].pc = "discard", ![d].ret = conns[dl[d].addr].conn]
       ELSE /\ conns' = [conns EXCEPT ![dl[d].addr] = [conn |-> dl[d].conn, lastUsed |-> now]]
            /\ dl' = [dl EXCEPT ![d].pc = "idle", ![d].ret = dl[d].conn, ![d].conn = NoConn]
    /\ UNCHANGED <<now, netVars, nsrv, stop, unreg, closed, nconn, chanVars, ev, lc, histVars>>

\* A loser that forgets to close its redundant connection.
DiscardSet_Nothing(d) == {}

\* What the loser of the first-dial race closes (part_008:273).
DiscardSet(d) == {dl[d].conn}

\* _ = conn.Close(); return existing.conn (part_008:273-274).
GetConnDiscard(d) ==
    /\ dl[d].pc = "discard"
    /\ closed' = closed \cup DiscardSet(d)
    /\ dl' = [dl EXCEPT ![d].pc = "idle", ![d].conn = NoConn]
    /\ UNCHANGED <<now, netVars, nsrv, stop, unreg, conns, nconn, mu, chanVars, ev, lc, histVars>>

GetConn(d) ==
    \/ \E a \in Addrs : GetConnLookup(d, a)
    \/ GetConnFastLock(d)
    \/ GetConnFastTouch(d)
    \/ GetConnDial(d)
    \/ GetConnDialFail(d)
    \/ GetConnPubLock(d)
    \/ GetConnPublish(d)
    \/ GetConnDiscard(d)

\* ----------------------------------------------------------- Node.Start
Busy(l) == lc[l].pc # "idle"
Overlaps(l) == \E m \in Callers \ {l} : Busy(m)

\* A Start without the already-started check.
StartRefused_Never(stopv) == FALSE

\* if n.stop != nil { return errors.New("already started") } (part_008:150-152)
StartRefused(stopv) == stopv # 0

StartAlready(l) ==
    /\ lc[l].pc = "idle"
    /\ StartRefused(stop)
    /\ lc' = [lc EXCEPT ![l] = [IdleCaller EXCEPT !.ret = "AlreadyStarted"]]
    /\ raced' = (raced \/ Overlaps(l))
    /\ UNCHANGED <<now, netVars, nsrv, stop, unreg, poolVars, nconn, mu, chanVars, ev, dl, stopped, lateCall>>

\* selfSignedEd25519Cert failed (part_008:154-157).
StartCertFail(l) ==
    /\ lc[l].pc = "idle"
    /\ ~StartRefused(stop)
    /\ lc' = [lc EXCEPT ![l] = [IdleCaller EXCEPT !.ret = "CertErr"]]
    /\ raced' = (raced \/ Overlaps(l))
    /\ UNCHANGED <<now, netVars, nsrv, stop, unreg, poolVars, nconn, mu, chanVars, ev, dl, stopped, lateCall>>

\* The certificate is built and grpc.NewServer creates server nsrv+1
\* (part_008:154-169).
StartBegin(l) ==
    /\ lc[l].pc = "idle"
    /\ ~StartRefused(stop)
    /\ nsrv < MaxStarts
    /\ nsrv' = nsrv + 1
    /\ lc' = [lc EXCEPT ![l] = [IdleCaller EXCEPT !.pc = "register", !.srv = nsrv + 1]]
    /\ raced' = (raced \/ Overlaps(l))
    /\ UNCHANGED <<now, netVars, stop, unreg, poolVars, nconn, mu, chanVars, ev, dl, stopped, lateCall>>

\* The servers left serving when MockNetwork.Register returns for server k
\* (part_008:41-42): the Serve goroutine is started before the address check.
ServingAfterRegister(k, ok) == serving \cup {k}

\* MockNetwork.Register (part_008:38-64), called at part_008:171-174.
StartRegister(l) ==
    /\ lc[l].pc = "register"
    /\ IF nodes[SelfAddr] # 0
       THEN /\ serving' = ServingAfterRegister(lc[l].srv, FALSE)
            /\ nodes' = nodes
            /\ lc' = [lc EXCEPT ![l].pc = "idle", ![l].ret = "RegErr"]
       ELSE /\ serving' = ServingAfterRegister(lc[l].srv, TRUE)
            /\ nodes' = [nodes EXCEPT ![SelfAddr] = lc[l].srv]
            /\ lc' = [lc EXCEPT ![l].pc = "setStop"]
    /\ UNCHANGED <<now, peerReg, nsrv, stop, unreg, poolVars, nconn, mu, chanVars, ev, dl, histVars>>

\* n.stop = unregister (part_008:175).
StartSetStop(l) ==
    /\ lc[l].pc = "setStop"
    /\ stop' = lc[l].srv
    /\ lc' = [lc EXCEPT ![l].pc = "evLock"]
    /\ UNCHANGED <<now, netVars, nsrv, unreg, poolVars, nconn, mu, chanVars, ev, dl, histVars>>

\* n.mu.Lock() in startEvictor (part_008:283).
StartEvictorLock(l) ==
    /\ lc[l].pc = "evLock"
    /\ mu = Free
    /\ mu' = Holder("call", l)
    /\ lc' = [lc EXCEPT ![l].pc = "evBody"]
    /\ UNCHANGED <<now, netVars, nsrv, stop, unreg, poolVars, nconn, chanVars, ev, dl, histVars>>

\* startEvictor (part_008:284-309): make the channels, unlock and start the
\* goroutine with its ticker, unless an evictor is recorded already.  Start
\* then returns nil.
StartEvictorBody(l) ==
    /\ lc[l].pc = "evBody"
    /\ mu = Holder("call", l)
    /\ mu' = Free
    /\ IF evictStop # 0
       THEN UNCHANGED <<evictStop, evictDone, ev>>
       ELSE /\ evictStop' = lc[l].srv
            /\ evictDone' = lc[l].srv
            /\ ev' = [ev EXCEPT ![lc[l].srv] = [pc |-> "select", cutoff |-> 0, tick |-> FALSE]]
    /\ lc' = [lc EXCEPT ![l].pc = "idle", ![l].ret = "started"]
    /\ UNCHANGED <<now, netVars, nsrv, stop, unreg, poolVars, nconn, stopClosed, doneClosed, dl, histVars>>

Start(l) ==
    \/ StartAlready(l)
    \/ StartCertFail(l)
    \/ StartBegin(l)
    \/ StartRegister(l)
    \/ StartSetStop(l)
    \/ StartEvictorLock(l)
    \/ StartEvictorBody(l)

\* ------------------------------------------------------------ Node.Stop
\* A Stop without the nil check.
StopSkipped_Never(stopv) == FALSE

\* if n.stop == nil { return nil } (part_008:185-187)
StopSkipped(stopv) == stopv = 0

StopNoop(l) ==
    /\ lc[l].pc = "idle"
    /\ StopSkipped(stop)
    /\ lc' = [lc EXCEPT ![l] = [IdleCaller EXCEPT !.ret = "noop"]]
    /\ raced' = (raced \/ Overlaps(l))
    /\ UNCHANGED <<now, netVars, nsrv, stop, unreg, poolVars, nconn, mu, chanVars, ev, dl, stopped, lateCall>>

StopBegin(l) ==
    /\ lc[l].pc = "idle"
    /\ ~StopSkipped(stop)
    /\ lc' = [lc EXCEPT ![l] = [IdleCaller EXCEPT !.pc = "sevLock"]]
    /\ raced' = (raced \/ Overlaps(l))
    /\ UNCHANGED <<now, netVars, nsrv, stop, unreg, poolVars, nconn, mu, chanVars, ev, dl, stopped, lateCall>>

\* n.mu.Lock() in stopEvictor (part_008:312).
StopEvictorLock(l) ==
    /\ lc[l].pc = "sevLock"
    /\ mu = Free
    /\ mu' = Holder("call", l)
    /\ lc' = [lc EXCEPT ![l].pc = "sevBody"]
    /\ UNCHANGED <<now, netVars, nsrv, stop, unreg, poolVars, nconn, chanVars, ev, dl, histVars>>

\* stopEvictor (part_008:313-320): take the channels, clear the fields,
\* unlock and close the stop channel.
StopEvictorBody(l) ==
    /\ lc[l].pc = "sevBody"
    /\ mu = Holder("call", l)
    /\ mu' = Free
    /\ evictStop' = 0
    /\ evictDone' = 0
    /\ stopClosed' = IF evictStop # 0 THEN stopClosed \cup {evictStop} ELSE stopClosed
    /\ lc' = [lc EXCEPT ![l].pc = "sevWait", ![l].ch = evictDone]
    /\ UNCHANGED <<now, netVars, nsrv, stop, unreg, poolVars, nconn, doneClosed, ev, dl, histVars>>

\* A stopEvictor that signals the goroutine and does not wait for it.
EvictorJoined_NoWait(ch) == TRUE

\* Whether stopEvictor may return: <-doneCh (part_008:321-323).
EvictorJoined(ch) == ch = 0 \/ ch \in doneClosed

StopEvictorWait(l) ==
    /\ lc[l].pc = "sevWait"
    /\ EvictorJoined(lc[l].ch)
    /\ lc' = [lc EXCEPT ![l].pc = "unreg"]
    /\ UNCHANGED <<now, netVars, nsrv, stop, unreg, poolVars, nconn, mu, chanVars, ev, dl, histVars>>

\* err := n.stop() (part_008:189): the unregister closure of MockNetwork
\* (part_008:55-61) deletes the address and stops the server.  A nil n.stop,
\* cleared by an overlapping Stop, is a nil function call: the process panics.
StopUnregister(l) ==
    /\ lc[l].pc = "unreg"
    /\ IF stop = 0
       THEN /\ lc' = [lc EXCEPT ![l].pc = "panic"]
            /\ UNCHANGED <<nodes, serving, unreg>>
       ELSE /\ nodes' = [nodes EXCEPT ![SelfAddr] = 0]
            /\ serving' = serving \ {stop}
            /\ unreg' = [unreg EXCEPT ![stop] = @ + 1]
            /\ lc' = [lc EXCEPT ![l].pc = "clear"]
    /\ UNCHANGED <<now, peerReg, nsrv, stop, poolVars, nconn, mu, chanVars, ev, dl, histVars>>

\* A Stop that forgets to clear n.stop.
StopClear_Forget(l) ==
    /\ lc[l].pc = "clear"
    /\ lc' = [lc EXCEPT ![l].pc = "closeLock"]
    /\ UNCHANGED <<now, netVars, nsrv, stop, unreg, poolVars, nconn, mu, chanVars, ev, dl, histVars>>

\* n.stop = nil (part_008:190).
StopClear(l) ==
    /\ lc[l].pc = "clear"
    /\ stop' = 0
    /\ lc' = [lc EXCEPT ![l].pc = "closeLock"]
    /\ UNCHANGED <<now, netVars, nsrv, unreg, poolVars, nconn, mu, chanVars, ev, dl, histVars>>

\* n.mu.Lock() before closing the pool (part_008:193).
StopCloseLock(l) ==
    /\ lc[l].pc = "closeLock"
    /\ mu = Free
    /\ mu' = Holder("call", l)
    /\ lc' = [lc EXCEPT ![l].pc = "closeAll"]
    /\ UNCHANGED <<now, netVars, nsrv, stop, unreg, poolVars, nconn, chanVars, ev, dl, histVars>>

PooledConns(cs) == {cs[a].conn : a \in {b \in Addrs : cs[b] # NoEntry}}

\* Close pooled connections (part_008:194-200); Stop returns.
StopCloseAll(l) ==
    /\ lc[l].pc = "closeAll"
    /\ mu = Holder("call", l)
    /\ mu' = Free
    /\ closed' = closed \cup PooledConns(conns)
    /\ conns' = [a \in Addrs |-> NoEntry]
    /\ lc' = [lc EXCEPT ![l].pc = "idle", ![l].ret = "stopped"]
    /\ stopped' = TRUE
    /\ UNCHANGED <<now, netVars, nsrv, stop, unreg, nconn, chanVars, ev, dl, raced, lateCall>>

Stop(l) ==
    \/ StopNoop(l)
    \/ StopBegin(l)
    \/ StopEvictorLock(l)
    \/ StopEvictorBody(l)
    \/ StopEvictorWait(l)
    \/ StopUnregister(l)
    \/ StopClear(l)
    \/ StopCloseLock(l)
    \/ StopCloseAll(l)

\* ------------------------------------------------- the evictor goroutine
\* case <-ticker.C (part_008:302-303); evictIdle computes its cutoff
\* (part_008:327).
Cutoff(t) == t - IdleMinutes

EvictorTick(k) ==
    /\ ev[k].pc = "select"
    /\ ev[k].tick
    /\ ev' = [ev EXCEPT ![k] = [pc |-> "lock", cutoff |-> Cutoff(now), tick |-> FALSE]]
    /\ UNCHANGED <<now, netVars, nsrv, stop, unreg, poolVars, nconn, mu, chanVars, dl, lc, histVars>>

\* case <-stopCh: return; the deferred close(doneCh) (part_008:296-299, 304-305).
EvictorStop(k) ==
    /\ ev[k].pc = "select"
    /\ k \in stopClosed
    /\ ev' = [ev EXCEPT ![k] = [pc |-> "exited", cutoff |-> 0, tick |-> FALSE]]
    /\ doneClosed' = doneClosed \cup {k}
    /\ UNCHANGED <<now, netVars, nsrv, stop, unreg, poolVars, nconn, mu, evictStop, evictDone,
                   stopClosed, dl, lc, histVars>>

\* n.mu.Lock() in evictIdle (part_008:328).
EvictorLock(k) ==
    /\ ev[k].pc = "lock"
    /\ mu = Free
    /\ mu' = Holder("evict", k)
    /\ ev' = [ev EXCEPT ![k].pc = "scan"]
    /\ UNCHANGED <<now, netVars, nsrv, stop, unreg, poolVars, nconn, chanVars, dl, lc, histVars>>

\* The comparison turned around: entries used after the cutoff go, old ones stay.
Before_After(t, cutoff) == t > cutoff

\* An off-by-one comparison: an entry last used exactly at the cutoff goes too.
Before_OrEqual(t, cutoff) == t <= cutoff

\* pc.lastUsed.Before(cutoff) (part_008:330)
Before(t, cutoff) == t < cutoff

\* The entries one scan removes (part_008:329-334).
Evicted(cs, cutoff) == {a \in Addrs : cs[a] # NoEntry /\ Before(cs[a].lastUsed, cutoff)}

\* A scan that closes idle connections and leaves them in the map.
Remaining_Keep(cs, gone) == cs

\* delete(n.conns, addr) for each entry closed (part_008:332).
Remaining(cs, gone) == [a \in Addrs |-> IF a \in gone THEN NoEntry ELSE cs[a]]

\* evictIdle's loop and unlock (part_008:329-335).
EvictorScan(k) ==
    /\ ev[k].pc = "scan"
    /\ mu = Holder("evict", k)
    /\ mu' = Free
    /\ closed' = closed \cup {conns[a].conn : a \in Evicted(conns, ev[k].cutoff)}
    /\ conns' = Remaining(conns, Evicted(conns, ev[k].cutoff))
    /\ ev' = [ev EXCEPT ![k].pc = "select", ![k].cutoff = 0]
    /\ UNCHANGED <<now, netVars, nsrv, stop, unreg, nconn, chanVars, dl, lc, histVars>>

Evictor(k) ==
    \/ EvictorTick(k)
    \/ EvictorStop(k)
    \/ EvictorLock(k)
    \/ EvictorScan(k)

\* ---------------------------------------------------------- the system
\* A nil function call panics and ends the process.
Crashed == \E l \in Callers : lc[l].pc = "panic"

Next ==
    /\ UNCHANGED extVars
    /\ /\ ~Crashed
       /\ \/ Tick
          \/ \E a \in Addrs : PeerRegister(a)
          \/ \E a \in Addrs : PeerUnregister(a)
          \/ \E d \in Dialers : GetConn(d)
          \/ \E l \in Callers : Start(l)
          \/ \E l \in Callers : Stop(l)
          \/ \E k \in Servers : Evictor(k)

Spec == Init /\ [][Next]_vars

\* The pool under one Start/Stop caller and two dialers; no time passes, so
\* the evictor only waits for its stop channel.
PoolNext ==
    /\ UNCHANGED extVars
    /\ /\ ~Crashed
       /\ \/ \E d \in Dialers : GetConn(d)
          \/ Start(1)
          \/ Stop(1)
          \/ \E k \in Servers : EvictorStop(k)

PoolSpec == Init /\ [][PoolNext]_vars

\* One successful Start call, step by step.
StartOnce(l) ==
    \/ StartBegin(l)
    \/ StartRegister(l)
    \/ StartSetStop(l)
    \/ StartEvictorLock(l)
    \/ StartEvictorBody(l)

\* Idle eviction on a node that is started once and stays so: the clock, the
\* evictor and two dialers.
EvictNext ==
    /\ UNCHANGED extVars
    /\ /\ ~Crashed
       /\ \/ Tick
          \/ \E d \in Dialers : GetConn(d)
          \/ StartOnce(1)
          \/ \E k \in Servers : Evictor(k)

EvictSpec == Init /\ [][EvictNext]_vars

\* The pool lock under everything that takes it: two dialers, the evictor
\* with its ticker, and one caller of Start and Stop, for MaxLockClock minutes.
LockNext ==
    /\ UNCHANGED extVars
    /\ /\ ~Crashed
       /\ \/ (now < MaxLockClock /\ Tick)
          \/ \E d \in Dialers : GetConn(d)
          \/ Start(1)
          \/ Stop(1)
          \/ \E k \in Servers : Evictor(k)

LockSpec == Init /\ [][LockNext]_vars

\* Everything that closes connections of the pool: two dialers of the peer's
\* address, the evictor over the whole clock, and a node started once and
\* stopped.
CloseNext ==
    /\ UNCHANGED extVars
    /\ /\ ~Crashed
       /\ \/ Tick
          \/ \E d \in Dialers :
                \/ GetConnLookup(d, PeerAddr)
                \/ GetConnFastLock(d)
                \/ GetConnFastTouch(d)
                \/ GetConnDial(d)
                \/ GetConnDialFail(d)
                \/ GetConnPubLock(d)
                \/ GetConnPublish(d)
                \/ GetConnDiscard(d)
          \/ StartOnce(1)
          \/ Stop(1)
          \/ \E k \in Servers : Evictor(k)

CloseSpec == Init /\ [][CloseNext]_vars

\* The lifecycle under overlapping Start/Stop callers, next to other nodes
\* registering on the same network.
LifeNext ==
    /\ UNCHANGED extVars
    /\ /\ ~Crashed
       /\ \/ \E a \in Addrs : PeerRegister(a)
          \/ \E a \in Addrs : PeerUnregister(a)
          \/ \E l \in Callers : Start(l)
          \/ \E l \in Callers : Stop(l)
          \/ \E k \in Servers : EvictorStop(k)

LifeSpec == Init /\ [][LifeNext]_vars

\* Idle eviction with one dialer on a node that stays started, under the scheduling the Go runtime gives:
\* time passes, every goroutine that can take a step eventually does, and a
\* goroutine waiting for Node.mu gets it (sync.Mutex hands the lock to a
\* starving waiter).
LiveNext ==
    /\ UNCHANGED extVars
    /\ /\ ~Crashed
       /\ \/ Tick
          \/ \E a \in Addrs : GetConnLookup(1, a)
          \/ GetConnFastLock(1)
          \/ GetConnFastTouch(1)
          \/ GetConnDial(1)
          \/ GetConnDialFail(1)
          \/ GetConnPubLock(1)
          \/ GetConnPublish(1)
          \/ StartOnce(1)
          \/ \E k \in Servers : Evictor(k)

LiveFairness ==
    /\ WF_vars(Tick /\ UNCHANGED extVars)
    /\ WF_vars(GetConnFastTouch(1) /\ UNCHANGED extVars)
    /\ WF_vars(GetConnPublish(1) /\ UNCHANGED extVars)
    /\ WF_vars((StartRegister(1) \/ StartSetStop(1) \/ StartEvictorBody(1)) /\ UNCHANGED extVars)
    /\ SF_vars(StartEvictorLock(1) /\ UNCHANGED extVars)
    /\ \A k \in Servers :
          /\ WF_vars(EvictorTick(k) /\ UNCHANGED extVars)
          /\ WF_vars(EvictorStop(k) /\ UNCHANGED extVars)
          /\ SF_vars(EvictorLock(k) /\ UNCHANGED extVars)
          /\ WF_vars(EvictorScan(k) /\ UNCHANGED extVars)

LiveSpec == Init /\ [][LiveNext]_vars /\ LiveFairness

\* ======================================================= the unlock gate
\* cliService.Unlock (app.go:204-259) and the goroutine it starts.  The
\* handler holds cliService.mu from line 208 until it returns (the deferred
\* Unlock of line 209); the goroutine takes it at line 252.

\* if req == nil || req.MainPassword == "" (app.go:205-207).
UnlockInvalid(c) ==
    /\ ul[c].pc = "idle"
    /\ ul' = [ul EXCEPT ![c] = [pc |-> "idle", pw |-> "", ret |-> "InvalidArgument", task |-> 0]]
    /\ UNCHANGED <<fpFile, svcMu, svcNode, tasks, ntask, unlockRest>>

\* s.mu.Lock() (app.go:208).  A call that may launch a goroutine is taken
\* only while the model has a goroutine left.
UnlockLock(c, pw) ==
    /\ ul[c].pc = "idle"
    /\ svcMu = Free
    /\ svcNode # 0 \/ ntask < MaxTasks
    /\ svcMu' = Holder("unlock", c)
    /\ ul' = [ul EXCEPT ![c] = [pc |-> "locked", pw |-> pw, ret |-> "none", task |-> 0]]
    /\ UNCHANGED <<fpFile, svcNode, tasks, ntask, unlockRest>>

\* An Unlock without the already-unlocked check.
UnlockAttached_Never(node) == FALSE

\* if s.node != nil (app.go:210-212).
UnlockAttached(node) == node # 0

UnlockAlready(c) ==
    /\ ul[c].pc = "locked"
    /\ UnlockAttached(svcNode)
    /\ ul' = [ul EXCEPT ![c].pc = "ret", ![c].ret = "AlreadyUnlocked"]
    /\ UNCHANGED <<fpFile, svcMu, svcNode, tasks, ntask, unlockRest>>

\* os.ReadFile fails with something else than ErrNotExist (app.go:233-235).
UnlockReadErr(c) ==
    /\ ul[c].pc = "locked"
    /\ ~UnlockAttached(svcNode)
    /\ ul' = [ul EXCEPT ![c].pc = "ret", ![c].ret = "Internal"]
    /\ UNCHANGED <<fpFile, svcMu, svcNode, tasks, ntask, unlockRest>>

\* An Unlock that does not compare the stored fingerprint.
FingerprintMismatch_Never(data, pw) == FALSE

\* onDisk != hexfp (app.go:222-223).
FingerprintMismatch(data, pw) == TrimSpace(data) # HexFingerprint(pw)

\* The file exists and does not match (app.go:221-226).
UnlockMismatch(c) ==
    /\ ul[c].pc = "locked"
    /\ ~UnlockAttached(svcNode)
    /\ fpFile.exists
    /\ FingerprintMismatch(fpFile.data, ul[c].pw)
    /\ ul' = [ul EXCEPT ![c].pc = "ret", ![c].ret = "PermissionDenied"]
    /\ UNCHANGED <<fpFile, svcMu, svcNode, tasks, ntask, unlockRest>>

FailedFor(pw) == {t \in Tasks : tasks[t].pc = "failed" /\ tasks[t].pw = pw}

\* An Unlock that attaches its node before it is built and started.
Launch_Attach(c) ==
    /\ ntask' = ntask + 1
    /\ tasks' = [tasks EXCEPT ![ntask + 1] =
                    [pc |-> "new", pw |-> ul[c].pw, retry |-> FailedFor(ul[c].pw) # {}]]
    /\ ul' = [ul EXCEPT ![c].pc = "ret", ![c].ret = "OK", ![c].task = ntask + 1]
    /\ svcNode' = ntask + 1

\* go func(pw string) {...}(req.MainPassword) (app.go:239-256).
Launch(c) ==
    /\ ntask' = ntask + 1
    /\ tasks' = [tasks EXCEPT ![ntask + 1] =
                    [pc |-> "new", pw |-> ul[c].pw, retry |-> FailedFor(ul[c].pw) # {}]]
    /\ ul' = [ul EXCEPT ![c].pc = "ret", ![c].ret = "OK", ![c].task = ntask + 1]
    /\ UNCHANGED svcNode

\* The file exists and matches (app.go:221-227), then the launch.
UnlockVerified(c) ==
    /\ ul[c].pc = "locked"
    /\ ~UnlockAttached(svcNode)
    /\ fpFile.exists
    /\ ~FingerprintMismatch(fpFile.data, ul[c].pw)
    /\ Launch(c)
    /\ UNCHANGED <<fpFile, svcMu, unlockRest>>

\* The content os.WriteFile is given (app.go:229).
FingerprintLine(pw) == HexFingerprint(pw) \o <<"\n">>

\* No file yet: write it (app.go:228-232), then the launch.
UnlockCreate(c) ==
    /\ ul[c].pc = "locked"
    /\ ~UnlockAttached(svcNode)
    /\ ~fpFile.exists
    /\ fpFile' = FileOf(FingerprintLine(ul[c].pw))
    /\ Launch(c)
    /\ UNCHANGED <<svcMu, unlockRest>>

\* os.WriteFile fails (app.go:229-231): nothing, or a created and empty file.
UnlockWriteErr(c) ==
    /\ ul[c].pc = "locked"
    /\ ~UnlockAttached(svcNode)
    /\ ~fpFile.exists
    /\ fpFile' \in {NoFile, FileOf(<<>>)}
    /\ ul' = [ul EXCEPT ![c].pc = "ret", ![c].ret = "Internal"]
    /\ UNCHANGED <<svcMu, svcNode, tasks, ntask, unlockRest>>

\* The handler returns: the deferred s.mu.Unlock() (app.go:209, 258).
UnlockReturn(c) ==
    /\ ul[c].pc = "ret"
    /\ svcMu' = Free
    /\ ul' = [ul EXCEPT ![c].pc = "idle"]
    /\ UNCHANGED <<fpFile, svcNode, tasks, ntask, unlockRest>>

Unlock(c) ==
    \/ UnlockInvalid(c)
    \/ \E pw \in Passwords : UnlockLock(c, pw)
    \/ UnlockAlready(c)
    \/ UnlockReadErr(c)
    \/ UnlockMismatch(c)
    \/ UnlockVerified(c)
    \/ UnlockCreate(c)
    \/ UnlockWriteErr(c)
    \/ UnlockReturn(c)

\* bbnode.New(pw, netw) (app.go:242-247; part_008:126-146).
NewFails(pw) == DeriveEd25519FromMaster(DeriveMasterPriv(pw), "tor/onion/v3").err

TaskNew(t) ==
    /\ tasks[t].pc = "new"
    /\ tasks' = [tasks EXCEPT ![t].pc = IF NewFails(tasks[t].pw) THEN "failed" ELSE "start"]
    /\ UNCHANGED <<fpFile, svcMu, svcNode, ul, ntask, unlockRest>>

\* node.Start returns nil (app.go:248).
TaskStartOk(t) ==
    /\ tasks[t].pc = "start"
    /\ tasks' = [tasks EXCEPT ![t].pc = "attachLock"]
    /\ UNCHANGED <<fpFile, svcMu, svcNode, ul, ntask, unlockRest>>

\* node.Start returns an error (app.go:248-251).
TaskStartFail(t) ==
    /\ tasks[t].pc = "start"
    /\ tasks' = [tasks EXCEPT ![t].pc = "failed"]
    /\ UNCHANGED <<fpFile, svcMu, svcNode, ul, ntask, unlockRest>>

\* s.mu.Lock() (app.go:252).
TaskAttachLock(t) ==
    /\ tasks[t].pc = "attachLock"
    /\ svcMu = Free
    /\ svcMu' = Holder("task", t)
    /\ tasks' = [tasks EXCEPT ![t].pc = "attach"]
    /\ UNCHANGED <<fpFile, svcNode, ul, ntask, unlockRest>>

\* s.node = node; s.mu.Unlock() (app.go:253-254).
TaskAttach(t) ==
    /\ tasks[t].pc = "attach"
    /\ svcNode' = t
    /\ svcMu' = Free
    /\ tasks' = [tasks EXCEPT ![t].pc = "done"]
    /\ UNCHANGED <<fpFile, ul, ntask, unlockRest>>

StartTask(t) ==
    \/ TaskNew(t)
    \/ TaskStartOk(t)
    \/ TaskStartFail(t)
    \/ TaskAttachLock(t)
    \/ TaskAttach(t)

UnlockNext ==
    \/ \E c \in Clients : Unlock(c)
    \/ \E t \in Tasks : StartTask(t)

UnlockSpec == Init /\ [][UnlockNext]_vars

\* ==================================================== daemon processes
\* bbdapp.Run (app.go:71-172) in up to two bbd processes started on the same
\* data directory, with acquireDirLock (app.go:275-299).  flock.LockFile is a
\* non-blocking exclusive flock on the file the descriptor is open on; a lock
\* file that is unlinked keeps its inode, and its lock, while it is open.

\* A process that ends gives up the lock its descriptor holds.
Exited(p) == [i \in Inodes |-> IF flockOf[i] = p THEN 0 ELSE flockOf[i]]

\* Daemons that may still create a lock file.
Opening == {q \in Daemons : dmn[q].pc \in {"clean", "mkdir", "open"}}

\* Run is entered; os.MkdirAll(baseDir) (app.go:73-81).  A run is begun only
\* while the model has a lock file left for it.
RunStart(p, addr) ==
    /\ dmn[p].pc = "off"
    /\ ninode + Cardinality(Opening) < MaxInodes
    /\ dmn' = [dmn EXCEPT ![p] = [pc |-> "clean", fd |-> 0, addr |-> addr, ret |-> "none"]]
    /\ UNCHANGED <<cliDir, ninode, flockOf, daemonRest>>

\* os.RemoveAll(cliDir) (app.go:82-84).
RunClean(p) ==
    /\ dmn[p].pc = "clean"
    /\ cliDir' = NoDir
    /\ dmn' = [dmn EXCEPT ![p].pc = "mkdir"]
    /\ UNCHANGED <<ninode, flockOf, daemonRest>>

\* os.MkdirAll(cliDir) (app.go:86-88).
RunMkdir(p) ==
    /\ dmn[p].pc = "mkdir"
    /\ cliDir' = [cliDir EXCEPT !.dir = TRUE]
    /\ dmn' = [dmn EXCEPT ![p].pc = "open"]
    /\ UNCHANGED <<ninode, flockOf, daemonRest>>

\* os.OpenFile(lockPath, O_RDWR|O_CREATE) (app.go:277-280).
AcquireOpen(p) ==
    /\ dmn[p].pc = "open"
    /\ IF ~cliDir.dir
       THEN /\ dmn' = [dmn EXCEPT ![p] = Off("OpenErr")]
            /\ flockOf' = Exited(p)
            /\ UNCHANGED <<cliDir, ninode>>
       ELSE IF cliDir.lock = 0
       THEN /\ ninode' = ninode + 1
            /\ cliDir' = [cliDir EXCEPT !.lock = ninode + 1]
            /\ dmn' = [dmn EXCEPT ![p].pc = "flock", ![p].fd = ninode + 1]
            /\ UNCHANGED flockOf
       ELSE /\ dmn' = [dmn EXCEPT ![p].pc = "flock", ![p].fd = cliDir.lock]
            /\ UNCHANGED <<cliDir, ninode, flockOf>>
    /\ UNCHANGED daemonRest

\* A lock that is always granted.
LockRefused_Never(holder, p) == FALSE

\* flock.LockFile(f) fails (app.go:281).
LockRefused(holder, p) == holder \notin {0, p}

\* flock.LockFile(f) (app.go:281-284); on failure Run returns the error.
AcquireFlock(p) ==
    /\ dmn[p].pc = "flock"
    /\ IF LockRefused(flockOf[dmn[p].fd], p)
       THEN /\ dmn' = [dmn EXCEPT ![p] = Off("LockHeld")]
            /\ UNCHANGED flockOf
       ELSE /\ flockOf' = [flockOf EXCEPT ![dmn[p].fd] = p]
            /\ dmn' = [dmn EXCEPT ![p].pc = "keys"]
    /\ UNCHANGED <<cliDir, ninode, daemonRest>>

\* clitls.GenerateEd25519 fails (app.go:99-110): Run returns, bbd exits.
RunKeysFail(p) ==
    /\ dmn[p].pc = "keys"
    /\ dmn' = [dmn EXCEPT ![p] = Off("KeyErr")]
    /\ flockOf' = Exited(p)
    /\ UNCHANGED <<cliDir, ninode, daemonRest>>

\* clitls.WriteKeys(cliDir, srvPub, cliPriv) (app.go:111-113; clitls.go:77-98).
RunWriteKeys(p) ==
    /\ dmn[p].pc = "keys"
    /\ cliDir' = [cliDir EXCEPT !.dir = TRUE, !.serverPub = p, !.clientKey = p]
    /\ dmn' = [dmn EXCEPT ![p].pc = "listen"]
    /\ UNCHANGED <<ninode, flockOf, daemonRest>>

Serving(p) == dmn[p].pc = "serving"

\* net.Listen("tcp", cfg.CLIAddr) fails when the address is in use.
AddrInUse(p) == \E q \in Daemons \ {p} : Serving(q) /\ dmn[q].addr = dmn[p].addr

\* net.Listen and grpcSrv.Serve (app.go:118-139), or the error return of
\* lines 125-127 after which bbd exits.
RunListen(p) ==
    /\ dmn[p].pc = "listen"
    /\ IF AddrInUse(p)
       THEN /\ dmn' = [dmn EXCEPT ![p] = Off("ListenErr")]
            /\ flockOf' = Exited(p)
       ELSE /\ dmn' = [dmn EXCEPT ![p].pc = "serving"]
            /\ UNCHANGED flockOf
    /\ UNCHANGED <<cliDir, ninode, daemonRest>>

\* clitls.BuildServerTLS fails, or net.Listen fails for a reason outside the
\* daemons here, such as a port another program holds (app.go:118-127): Run
\* returns the error, bbd exits.
RunListenFail(p) ==
    /\ dmn[p].pc = "listen"
    /\ dmn' = [dmn EXCEPT ![p] = Off("ListenErr")]
    /\ flockOf' = Exited(p)
    /\ UNCHANGED <<cliDir, ninode, daemonRest>>

\* ctx is cancelled or Serve returns (app.go:142-158).
RunShutdown(p) ==
    /\ dmn[p].pc = "serving"
    /\ dmn' = [dmn EXCEPT ![p].pc = "rmKeys"]
    /\ UNCHANGED <<cliDir, ninode, flockOf, daemonRest>>

\* os.Remove of client.key and server.pub (app.go:159-164).
RunRemoveKeys(p) ==
    /\ dmn[p].pc = "rmKeys"
    /\ cliDir' = [cliDir EXCEPT !.clientKey = 0, !.serverPub = 0]
    /\ dmn' = [dmn EXCEPT ![p].pc = "unlock"]
    /\ UNCHANGED <<ninode, flockOf, daemonRest>>

\* rel(): flock.UnlockFile(f); f.Close() (app.go:288-293).
ReleaseUnlock(p) ==
    /\ dmn[p].pc = "unlock"
    /\ flockOf' = Exited(p)
    /\ dmn' = [dmn EXCEPT ![p].pc = "rmLock", ![p].fd = 0]
    /\ UNCHANGED <<cliDir, ninode, daemonRest>>

\* rel(): os.Remove(lockPath) (app.go:294-296).
ReleaseRemove(p) ==
    /\ dmn[p].pc = "rmLock"
    /\ cliDir' = [cliDir EXCEPT !.lock = 0]
    /\ dmn' = [dmn EXCEPT ![p].pc = "rmAll"]
    /\ UNCHANGED <<ninode, flockOf, daemonRest>>

\* os.RemoveAll(cliDir); return retErr (app.go:168-171).
RunRemoveAll(p) ==
    /\ dmn[p].pc = "rmAll"
    /\ cliDir' = NoDir
    /\ dmn' = [dmn EXCEPT ![p] = Off("stopped")]
    /\ UNCHANGED <<ninode, flockOf, daemonRest>>

Run(p) ==
    \/ \E addr \in CLIAddrs : RunStart(p, addr)
    \/ RunClean(p)
    \/ RunMkdir(p)
    \/ AcquireOpen(p)
    \/ AcquireFlock(p)
    \/ RunKeysFail(p)
    \/ RunWriteKeys(p)
    \/ RunListen(p)
    \/ RunListenFail(p)
    \/ RunShutdown(p)
    \/ RunRemoveKeys(p)
    \/ ReleaseUnlock(p)
    \/ ReleaseRemove(p)
    \/ RunRemoveAll(p)

DaemonNext == \E p \in Daemons : Run(p)

DaemonSpec == Init /\ [][DaemonNext]_vars

\* ================================================ control-plane handshake
\* One connection attempt between a gRPC client whose credentials pin
\* expServer (BuildClientTLSF) and a gRPC server whose credentials pin
\* expClient (BuildServerTLS).  Both configurations demand TLS 1.3, where the
\* client checks the server's certificate first, sends its own certificate and
\* its Finished, and the server checks the client's certificate last.

\* A server that does not compare the client's key with its pin.
ServerAccepts_Any(cert, expectedClientPub) == cert.alg = "ed25519"

\* VerifyConnection of BuildServerTLS (clitls.go:149-160); RequireAnyClientCert
\* makes the client present a certificate.
ServerAccepts(cert, expectedClientPub) ==
    /\ cert.alg = "ed25519"
    /\ cert.pub = expectedClientPub

\* VerifyPeerCertificate of BuildClientTLSF (clitls.go:177-192).
ClientAccepts(cert, serverPub) ==
    /\ cert.alg = "ed25519"
    /\ cert.pub = serverPub

\* grpc.DialContext(..., WithTransportCredentials, WithBlock()) reaches a server.
HsBegin(expClient, srvCert, expServer, cliCert) ==
    /\ hs.pc = "idle"
    /\ hs' = [NoHandshake EXCEPT !.pc = "serverCert", !.expClient = expClient,
                                 !.srvCert = srvCert, !.expServer = expServer,
                                 !.cliCert = cliCert]
    /\ UNCHANGED pinRest

\* The client receives the server's certificate.
HsClientVerify ==
    /\ hs.pc = "serverCert"
    /\ IF ClientAccepts(hs.srvCert, hs.expServer)
       THEN hs' = [hs EXCEPT !.pc = "clientCert", !.cliFinished = TRUE]
       ELSE hs' = [hs EXCEPT !.pc = "failed"]
    /\ UNCHANGED pinRest

\* The server receives the client's certificate and Finished.
HsServerVerify ==
    /\ hs.pc = "clientCert"
    /\ IF ServerAccepts(hs.cliCert, hs.expClient)
       THEN hs' = [hs EXCEPT !.pc = "preface", !.srvReady = TRUE]
       ELSE hs' = [hs EXCEPT !.pc = "alert"]
    /\ UNCHANGED pinRest

\* The client reads the server's alert: the transport is torn down and the
\* blocking dial ends with an error.
HsClientAlert ==
    /\ hs.pc = "alert"
    /\ hs' = [hs EXCEPT !.pc = "failed"]
    /\ UNCHANGED pinRest

\* The client reads the server's HTTP/2 preface: the connection is ready and
\* the blocking dial returns it.
HsClientReady ==
    /\ hs.pc = "preface"
    /\ hs' = [hs EXCEPT !.pc = "done", !.cliReady = TRUE]
    /\ UNCHANGED pinRest

\* conn.Close / the test's cleanup.
HsClose ==
    /\ hs.pc \in {"done", "failed"}
    /\ hs' = NoHandshake
    /\ UNCHANGED pinRest

CtlCerts == {CertOf(alg, k) : alg \in KeyAlgs, k \in CtlKeys}

PinNext ==
    \/ \E ec \in CtlPubs, sc \in CtlCerts, es \in CtlPubs, cc \in CtlCerts : HsBegin(ec, sc, es, cc)
    \/ HsClientVerify
    \/ HsServerVerify
    \/ HsClientAlert
    \/ HsClientReady
    \/ HsClose

PinSpec == Init /\ [][PinNext]_vars

\* ============================================================ peer plane
\* Two Nodes and one server that is no Node share a MockNetwork.  A pooled
\* *grpc.ClientConn is a channel to an address: its transport is connected to
\* the server that was registered under the address when it last connected.

PeerServers == PeerNodes \cup {Outsider}

\* The public key in the certificate server s presents (Start builds a Node's
\* from n.priv, part_008:153-162).
ServerCertPub(s) == IF s \in PeerNodes THEN NodeKeys(s).pub ELSE PublicOf(OutsiderKey)

\* What getConn's client TLS configuration requires of the server's
\* certificate (part_008:249-254): InsecureSkipVerify, and no
\* VerifyPeerCertificate or VerifyConnection.
DialerTrusts(addr, pub) == TRUE

\* srv.Stop of server s closes the transports connected to it.
Disconnect(pool, s) ==
    [n \in PeerNodes |-> [a \in PeerAddrs |->
        IF pool[n][a].srv = s THEN [pool[n][a] EXCEPT !.srv = 0] ELSE pool[n][a]]]

\* Node.Start, as far as the transport sees it (part_008:149-176).
PeerStart(n) ==
    /\ n \notin up
    /\ IF netNodes[NodeAddr(n)] # 0
       THEN UNCHANGED <<netNodes, up>>
       ELSE /\ netNodes' = [netNodes EXCEPT ![NodeAddr(n)] = n]
            /\ up' = up \cup {n}
    /\ UNCHANGED <<peerConns, hc, outsider, peerRest>>

\* Node.Stop: the unregister closure, then the pool is closed and emptied
\* (part_008:184-201).
PeerStop(n) ==
    /\ n \in up
    /\ netNodes' = [netNodes EXCEPT ![NodeAddr(n)] = 0]
    /\ up' = up \ {n}
    /\ peerConns' = [Disconnect(peerConns, n) EXCEPT ![n] = [a \in PeerAddrs |-> NoPeerConn]]
    /\ UNCHANGED <<hc, outsider, peerRest>>

\* MockNetwork.Register(addr, priv, srv) by a server that is no Node: the
\* address is only a key of the map (part_008:38-54).
OutsiderRegister(a) ==
    /\ netNodes[a] = 0
    /\ \A b \in PeerAddrs : netNodes[b] # Outsider
    /\ netNodes' = [netNodes EXCEPT ![a] = Outsider]
    /\ outsider' = TRUE
    /\ UNCHANGED <<up, peerConns, hc, peerRest>>

\* Its unregister closure (part_008:56-62).
OutsiderUnregister(a) ==
    /\ netNodes[a] = Outsider
    /\ netNodes' = [netNodes EXCEPT ![a] = 0]
    /\ peerConns' = Disconnect(peerConns, Outsider)
    /\ UNCHANGED <<up, hc, outsider, peerRest>>

DialAnswer(a, ok) == [NoAnswer EXCEPT !.op = "dial", !.to = a, !.ok = ok]

\* Node.DialPeer(addr) = getConn (part_008:213-280), one caller at a time.
PeerDial(n, a) ==
    /\ IF peerConns[n][a].open
       THEN /\ hc' = [hc EXCEPT ![n] = DialAnswer(a, TRUE)]
            /\ UNCHANGED peerConns
       ELSE IF netNodes[a] = 0 \/ ~DialerTrusts(a, ServerCertPub(netNodes[a]))
       THEN /\ hc' = [hc EXCEPT ![n] = DialAnswer(a, FALSE)]
            /\ UNCHANGED peerConns
       ELSE /\ hc' = [hc EXCEPT ![n] = DialAnswer(a, TRUE)]
            /\ peerConns' = [peerConns EXCEPT ![n][a] = [open |-> TRUE, srv |-> netNodes[a]]]
    /\ UNCHANGED <<netNodes, up, outsider, peerRest>>

\* A handler that reports its own address as the caller's.
HealthCheckOf_Self(s, clientPub) ==
    [ok |-> TRUE, client |-> NodeAddr(s), server |-> NodeAddr(s)]

\* Node.HealthCheck of node s for a caller whose certificate carries
\* clientPub (bbrpc_server.go:15-32).
HealthCheckOf(s, clientPub) ==
    IF clientPub = <<>> THEN [ok |-> FALSE, client |-> <<>>, server |-> <<>>]
    ELSE [ok |-> TRUE, client |-> OnionAddr(clientPub), server |-> NodeAddr(s)]

\* What the server behind a connection answers: a Node runs Node.HealthCheck,
\* another server answers what it likes.
Answers(s, a, clientPub) ==
    IF s \in PeerNodes THEN {HealthCheckOf(s, clientPub)}
    ELSE {[ok |-> TRUE, client |-> OnionAddr(clientPub), server |-> srvAddr] :
            srvAddr \in {a, OutsiderAddr}}

HealthAnswer(a, r) ==
    [op |-> "health", to |-> a, ok |-> r.ok, client |-> r.client, server |-> r.server]

\* client.HealthCheck on the connection DialPeer(addr) returned
\* (node_mock_test.go:33-40).  A transport that went down either fails the
\* call or has reconnected, through the same dialer, to the address.
PeerHealthCheck(n, a) ==
    /\ peerConns[n][a].open
    /\ \/ /\ peerConns[n][a].srv # 0
          /\ \E r \in Answers(peerConns[n][a].srv, a, NodeKeys(n).pub) :
                hc' = [hc EXCEPT ![n] = HealthAnswer(a, r)]
          /\ UNCHANGED peerConns
       \/ /\ peerConns[n][a].srv = 0
          /\ hc' = [hc EXCEPT ![n] = HealthAnswer(a, [ok |-> FALSE, client |-> <<>>, server |-> <<>>])]
          /\ UNCHANGED peerConns
       \/ /\ peerConns[n][a].srv = 0
          /\ netNodes[a] # 0
          /\ DialerTrusts(a, ServerCertPub(netNodes[a]))
          /\ peerConns' = [peerConns EXCEPT ![n][a].srv = netNodes[a]]
          /\ \E r \in Answers(netNodes[a], a, NodeKeys(n).pub) :
                hc' = [hc EXCEPT ![n] = HealthAnswer(a, r)]
    /\ UNCHANGED <<netNodes, up, outsider, peerRest>>

PeerNext ==
    \/ \E n \in PeerNodes : PeerStart(n)
    \/ \E n \in PeerNodes : PeerStop(n)
    \/ \E a \in PeerAddrs : OutsiderRegister(a)
    \/ \E a \in PeerAddrs : OutsiderUnregister(a)
    \/ \E n \in PeerNodes, a \in PeerAddrs : PeerDial(n, a)
    \/ \E n \in PeerNodes, a \in PeerAddrs : PeerHealthCheck(n, a)

PeerSpec == Init /\ [][PeerNext]_vars

\* ========================================================= key derivation
\* Calls of the derivation functions and of New, made at different times, in
\* different processes and on different machines (entropy).

\* keys.DeriveMasterPriv, then keys.DeriveEd25519FromMaster (derive.go:15-64),
\* then the onion address of the public key.
Identity(seed, purpose) ==
    LET master == DeriveMasterPriv(seed)
        k == DeriveEd25519FromMaster(master, purpose)
    IN  [pw |-> seed, purpose |-> purpose, master |-> master, err |-> k.err,
         priv |-> k.priv, pub |-> k.pub, addr |-> OnionAddr(k.pub)]

\* New(seed, netw) (part_008:126-146): the fields of the Node it returns.
NewNode(seed) ==
    LET master == DeriveMasterPriv(seed)
        k == DeriveEd25519FromMaster(master, "tor/onion/v3")
    IN  [pw |-> seed, purpose |-> "tor/onion/v3", master |-> master, err |-> k.err,
         priv |-> k.priv, pub |-> k.pub, addr |-> OnionAddr(k.pub)]

Stamp(r, by) ==
    [by |-> by, at |-> entropy, pw |-> r.pw, purpose |-> r.purpose, master |-> r.master,
     err |-> r.err, priv |-> r.priv, pub |-> r.pub, addr |-> r.addr]

Keep2(seq) == IF Len(seq) > 2 THEN Tail(seq) ELSE seq

\* Time passes, or the next call is made elsewhere.
EnvChange ==
    /\ \E e \in Entropy \ {entropy} : entropy' = e
    /\ UNCHANGED <<derived, keyRest>>

DeriveCall(seed, purpose) ==
    /\ derived' = Keep2(Append(derived, Stamp(Identity(seed, purpose), "derive")))
    /\ UNCHANGED <<entropy, keyRest>>

NodeNew(seed) ==
    /\ derived' = Keep2(Append(derived, Stamp(NewNode(seed), "new")))
    /\ UNCHANGED <<entropy, keyRest>>

KeyNext ==
    \/ EnvChange
    \/ \E seed \in Seeds, purpose \in Purposes : DeriveCall(seed, purpose)
    \/ \E seed \in Seeds : NodeNew(seed)

KeySpec == Init /\ [][KeyNext]_vars

\* Calls of the three derivation functions with every kind of argument; here
\* derived holds the two most recent calls with their results:
\*   [fn, master, purpose, keyLen, err, out, priv, pub]
Masters == {DeriveMasterPriv(seed) : seed \in Seeds} \cup {<<>>}
KeyLens == {0, 1, KeyBytes, HkdfLimit, HkdfLimit + 1}

CallOf(fn, master, purpose, keyLen, err, out, priv, pub) ==
    [fn |-> fn, master |-> master, purpose |-> purpose, keyLen |-> keyLen,
     err |-> err, out |-> out, priv |-> priv, pub |-> pub]

\* DeriveMasterPriv(seed): it has no error result.
MasterCall(seed) ==
    /\ derived' = Keep2(Append(derived,
          CallOf("DeriveMasterPriv", Bytes(seed), "", 0, FALSE, DeriveMasterPriv(seed), <<>>, <<>>)))
    /\ UNCHANGED <<entropy, keyRest>>

\* DeriveKey(masterPriv, purpose, keyLen), for keyLen >= 0.
DeriveKeyCall(master, purpose, keyLen) ==
    /\ derived' = Keep2(Append(derived,
          CallOf("DeriveKey", master, purpose, keyLen, DeriveKeyErr(master, purpose, keyLen),
                 DeriveKey(master, purpose, keyLen), <<>>, <<>>)))
    /\ UNCHANGED <<entropy, keyRest>>

\* DeriveEd25519FromMaster(masterPriv, purpose).
FromMasterCall(master, purpose) ==
    /\ LET k == DeriveEd25519FromMaster(master, purpose)
       IN  derived' = Keep2(Append(derived,
               CallOf("DeriveEd25519FromMaster", master, purpose, 0, k.err, <<>>, k.priv, k.pub)))
    /\ UNCHANGED <<entropy, keyRest>>

KeyErrNext ==
    \/ EnvChange
    \/ \E seed \in Seeds : MasterCall(seed)
    \/ \E master \in Masters, purpose \in Purposes, keyLen \in KeyLens :
          DeriveKeyCall(master, purpose, keyLen)
    \/ \E master \in Masters, purpose \in Purposes : FromMasterCall(master, purpose)

KeyErrSpec == Init /\ [][KeyErrNext]_vars

\* ===================================================== local health check
\* A Node answering the CLI's LocalHealthCheck. lhc.calls holds the two most
\* recent calls: [at, since, onion, uptime], since being startedAt at the call.

\* Node.Address.
Address(n) == n.addr

\* time.Since(t).Seconds(), converted by int64(): the fraction is dropped.
SinceSeconds(at, t) == (at - t) \div TicksPerSec

\* An answer that counts clock ticks.
LocalHealthCheck_Ticks(n) ==
    [ServerOnion |-> n.addr,
     UptimeSeconds |-> IF n.startedAt # ZeroTime THEN n.clock - n.startedAt ELSE 0]

\* Node.LocalHealthCheck (clirpc_server.go:12-23).
LocalHealthCheck(n) ==
    [ServerOnion |-> n.addr,
     UptimeSeconds |-> IF n.startedAt # ZeroTime THEN SinceSeconds(n.clock, n.startedAt) ELSE 0]

\* Time passes.
LhcTick ==
    /\ lhc.clock < MaxUptime
    /\ lhc' = [lhc EXCEPT !.clock = @ + 1]
    /\ UNCHANGED lhcRest

\* Node.Start records the time of the call.
LhcStart ==
    /\ lhc.startedAt = ZeroTime
    /\ lhc' = [lhc EXCEPT !.startedAt = lhc.clock]
    /\ UNCHANGED lhcRest

\* A call of LocalHealthCheck.
LhcCall ==
    /\ LET r == LocalHealthCheck(lhc)
       IN  lhc' = [lhc EXCEPT !.calls = Keep2(Append(@,
               [at |-> lhc.clock, since |-> lhc.startedAt,
                onion |-> r.ServerOnion, uptime |-> r.UptimeSeconds]))]
    /\ UNCHANGED lhcRest

LhcNext == LhcTick \/ LhcStart \/ LhcCall

LhcSpec == Init /\ [][LhcNext]_vars

\* ====================================================== peer-link server
\* The gRPC server Node.Start builds (part_008:158-169) and its HealthCheck
\* handler (bbrpc_server.go:15-32, part_006:14-43).

\* A server that asks for no client certificate.
LinkAccepts_NoClientCert(cert) == TRUE

\* ClientAuth: tls.RequireAnyClientCert (part_008:162): the handshake needs a
\* client certificate and verifies nothing about it.
LinkAccepts(cert) == cert # NoCert

\* ClientPubKeyFromContext (part_006:14-43).
ClientPubKeyFromContext(ctx) ==
    IF ~ctx.peer \/ ctx.auth = "nil" THEN [err |-> TRUE, pub |-> <<>>]
    ELSE IF ctx.auth = "TLSInfo" THEN
        IF Len(ctx.certs) = 0 THEN [err |-> TRUE, pub |-> <<>>]
        ELSE IF ctx.certs[1].alg = "ed25519" THEN [err |-> FALSE, pub |-> ctx.certs[1].pub]
        ELSE [err |-> TRUE, pub |-> <<>>]
    ELSE IF ctx.auth \in {"*TLSInfo", "nil *TLSInfo"} THEN
        IF ctx.auth = "nil *TLSInfo" \/ Len(ctx.certs) = 0 THEN [err |-> TRUE, pub |-> <<>>]
        ELSE IF ctx.certs[1].alg = "ed25519" THEN [err |-> FALSE, pub |-> ctx.certs[1].pub]
        ELSE [err |-> TRUE, pub |-> <<>>]
    ELSE [err |-> TRUE, pub |-> <<>>]

\* Node.HealthCheck (bbrpc_server.go:15-32) with the call's context.
HealthCheck(n, ctx) ==
    LET k == ClientPubKeyFromContext(ctx) IN
    IF k.err THEN [code |-> "Unauthenticated", client |-> <<>>, server |-> <<>>]
    ELSE [code |-> "OK", client |-> OnionAddr(k.pub), server |-> n.addr]

\* A client connects and the TLS handshake runs.
LinkHandshake(cert) ==
    /\ link.state = "idle"
    /\ link' = [link EXCEPT !.cert = cert,
                            !.accepted = LinkAccepts(cert),
                            !.state = IF LinkAccepts(cert) THEN "open" ELSE "idle",
                            !.ctx = NoCtx, !.resp = NoResp]
    /\ UNCHANGED linkRest

\* HealthCheck arrives over the connection: the context carries the
\* handshake's state, by value.
LinkRPC ==
    /\ link.state = "open"
    /\ LET ctx == CtxOf(TRUE, "TLSInfo", IF link.cert = NoCert THEN <<>> ELSE <<link.cert>>)
       IN  link' = [link EXCEPT !.ctx = ctx, !.resp = HealthCheck(link, ctx)]
    /\ UNCHANGED linkRest

\* The handler is called with a context that did not come from this server's
\* handshake: in process, or behind other credentials.
LinkCall(peer, auth, certs) ==
    /\ LET ctx == CtxOf(peer, auth, certs)
       IN  link' = [link EXCEPT !.ctx = ctx, !.resp = HealthCheck(link, ctx)]
    /\ UNCHANGED linkRest

\* The client closes the connection.
LinkClose ==
    /\ link.state = "open"
    /\ link' = [link EXCEPT !.state = "idle"]
    /\ UNCHANGED linkRest

LinkNext ==
    \/ \E cert \in LinkCerts : LinkHandshake(cert)
    \/ LinkRPC
    \/ \E peer \in BOOLEAN, auth \in AuthKinds :
          \E certs \in {<<>>} \cup {<<c>> : c \in LinkCerts \ {NoCert}} :
              LinkCall(peer, auth, certs)
    \/ LinkClose

LinkSpec == Init /\ [][LinkNext]_vars

\* ============================================================== tor plane
\* One TorNetwork with a caller of Register (Node.Start) and callers of Dial
\* (Node.getConn).

\* NewTorNetwork(dataDir) (tor.go:24).
TorNew(dir) ==
    /\ ~torNet.built
    /\ torNet' = [built |-> TRUE, dataDir |-> dir, t |-> 0]
    /\ UNCHANGED <<ntor, torOpen, reg, registered, dial, torRest>>

RegReturn(ret) == reg' = [pc |-> "idle", inst |-> 0, ret |-> ret]

\* Register (tor.go:32-37).
RegBegin ==
    /\ torNet.built
    /\ reg.pc = "idle"
    /\ IF torNet.dataDir = "" THEN RegReturn("NoDataDir")
       ELSE reg' = [pc |-> "mkdir", inst |-> 0, ret |-> "none"]
    /\ UNCHANGED <<torNet, ntor, torOpen, registered, dial, torRest>>

\* os.MkdirAll(tNet.dataDir) (tor.go:39-43).
RegMkdir ==
    /\ reg.pc = "mkdir"
    /\ \/ reg' = [reg EXCEPT !.pc = "start"]
       \/ RegReturn("MkdirErr")
    /\ UNCHANGED <<torNet, ntor, torOpen, registered, dial, torRest>>

\* tor.Start (tor.go:50-53).
RegTorStart ==
    /\ reg.pc = "start"
    /\ \/ /\ ntor < MaxTor
          /\ ntor' = ntor + 1
          /\ torOpen' = torOpen \cup {ntor + 1}
          /\ reg' = [reg EXCEPT !.pc = "listen", !.inst = ntor + 1]
       \/ /\ RegReturn("StartErr")
          /\ UNCHANGED <<ntor, torOpen>>
    /\ UNCHANGED <<torNet, registered, dial, torRest>>

\* A Register that stores the tor instance whether or not Listen succeeded.
Retained_Always(t, inst, listenOk) == inst

\* tNet.t once Register is past t.Listen (tor.go:60-64, 74).
Retained(t, inst, listenOk) == IF listenOk THEN inst ELSE t

\* t.Listen, and what follows it (tor.go:55-76).
RegListen ==
    /\ reg.pc = "listen"
    /\ \/ /\ torNet' = [torNet EXCEPT !.t = Retained(torNet.t, reg.inst, TRUE)]
          /\ registered' = registered \cup {reg.inst}
          /\ RegReturn("ok")
          /\ UNCHANGED torOpen
       \/ /\ torNet' = [torNet EXCEPT !.t = Retained(torNet.t, reg.inst, FALSE)]
          /\ torOpen' = torOpen \ {reg.inst}
          /\ RegReturn("ListenErr")
          /\ UNCHANGED registered
    /\ UNCHANGED <<ntor, dial, torRest>>

\* The unregister closure of a successful Register (tor.go:71).
TorUnregister(i) ==
    /\ i \in registered \cap torOpen
    /\ torOpen' = torOpen \ {i}
    /\ UNCHANGED <<torNet, ntor, reg, registered, dial, torRest>>

\* strings.Contains(normAddr, ".onion") for the addresses of the model.
\* strings.Contains, piece by piece.
Contains(txt, piece) == \E i \in DOMAIN txt : txt[i] = piece

\* strings.Contains(normAddr, ".onion") (tor.go:86).
IsOnion(normAddr) == Contains(normAddr, ".onion")

\* The target handed to DialContext (tor.go:89-91, 96).
DialTarget(normAddr) == IF ~Contains(normAddr, ":") THEN normAddr \o <<":", "80">> ELSE normAddr

\* Dial (tor.go:80-97).  t.Dialer fails on a tor instance that was closed;
\* otherwise DialContext is called with the target and succeeds or fails.
TorDial(addr) ==
    /\ torNet.built
    /\ LET normAddr == TrimSpace(addr) IN
       \E ret \in IF torNet.t = 0 THEN {"TransportUnavailable"}
                  ELSE IF ~IsOnion(normAddr) THEN {"BadAddress"}
                  ELSE IF torNet.t \notin torOpen THEN {"DialerErr"}
                  ELSE {"ok", "DialErr"} :
          dial' = [addr |-> addr, ret |-> ret, after |-> reg.ret,
                   target |-> IF ret \in {"ok", "DialErr"} THEN DialTarget(normAddr) ELSE <<>>]
    /\ UNCHANGED <<torNet, ntor, torOpen, reg, registered, torRest>>

TorNext ==
    \/ \E dir \in DataDirs : TorNew(dir)
    \/ RegBegin
    \/ RegMkdir
    \/ RegTorStart
    \/ RegListen
    \/ \E i \in TorInsts : TorUnregister(i)
    \/ \E addr \in DialAddrs : TorDial(addr)

TorSpec == Init /\ [][TorNext]_vars

\* ====================================================== in-memory backend
\* MockNetwork with any number of registrants and one caller of Dial.
\* Register and Dial take m.mu for the map access only; the unregister
\* closure deletes the map entry and then stops the server.

\* A registration for address a that succeeded and whose unregister closure
\* has not been called.
Live(a) == \E i \in 1..mock.nreg : mock.addrOf[i] = a /\ i \notin mock.called

\* A Register that never finds the address taken.
Exists_Never(m, a) == FALSE

\* _, exists := m.nodes[addr] (part_008:49).
Exists(m, a) == m[a] # 0

\* MockNetwork.Register (part_008:38-64): the listener of server nreg+1 is
\* serving from the start; a duplicate address is refused and the map is left
\* as it is, otherwise the service is stored under the address.
MockRegister(a) ==
    /\ mock.nreg < MaxRegs
    /\ IF Exists(mock.nodes, a)
       THEN mock' = [mock EXCEPT !.nreg = @ + 1, !.open = @ \cup {mock.nreg + 1},
                                 !.rejected = @ \cup {mock.nreg + 1},
                                 !.lastReg = [addr |-> a, id |-> mock.nreg + 1,
                                              ret |-> "AlreadyRegistered"]]
       ELSE mock' = [mock EXCEPT !.nreg = @ + 1, !.addrOf[mock.nreg + 1] = a,
                                 !.nodes[a] = mock.nreg + 1, !.open = @ \cup {mock.nreg + 1},
                                 !.lastReg = [addr |-> a, id |-> mock.nreg + 1, ret |-> "ok"]]
    /\ UNCHANGED mockRest

\* An unregister closure that leaves the map as it is.
AfterDelete_Keep(m, a) == m

\* delete(m.nodes, addr) (part_008:57-59).
AfterDelete(m, a) == [m EXCEPT ![a] = 0]

\* The unregister closure of registration i is called: the map entry of its
\* address goes (part_008:56-59).
MockUnregDelete(i) ==
    /\ i \in 1..mock.nreg \ mock.rejected
    /\ i \notin mock.un
    /\ mock' = [mock EXCEPT !.nodes = AfterDelete(mock.nodes, mock.addrOf[i]),
                            !.called = @ \cup {i}, !.un = @ \cup {i}]
    /\ UNCHANGED mockRest

\* srv.Stop() closes the listener, and the closure returns (part_008:60-61).
MockUnregStop(i) ==
    /\ i \in mock.un
    /\ mock' = [mock EXCEPT !.open = @ \ {i}, !.un = @ \ {i}]
    /\ UNCHANGED mockRest

\* MockNetwork.Dial: the lookup under the read lock (part_008:66-72).
MockLookup(a) ==
    /\ mock.dial.pc = "idle"
    /\ IF mock.nodes[a] = 0
       THEN mock' = [mock EXCEPT !.dial = [NoMockDial EXCEPT !.addr = a, !.live = Live(a),
                                                              !.ret = "UnknownAddress"]]
       ELSE mock' = [mock EXCEPT !.dial = [pc |-> "lisDial", addr |-> a, svc |-> mock.nodes[a],
                                           live |-> Live(a), ret |-> "none"]]
    /\ UNCHANGED mockRest

\* svc.lis.Dial() (part_008:73): a closed bufconn listener refuses.
MockLisDial ==
    /\ mock.dial.pc = "lisDial"
    /\ mock' = [mock EXCEPT !.dial.pc = "idle",
                            !.dial.ret = IF mock.dial.svc \in mock.open THEN "ok" ELSE "Closed"]
    /\ UNCHANGED mockRest

MockNext ==
    \/ \E a \in Addrs : MockRegister(a)
    \/ \E i \in Regs : MockUnregDelete(i)
    \/ \E i \in Regs : MockUnregStop(i)
    \/ \E a \in Addrs : MockLookup(a)
    \/ MockLisDial

MockSpec == Init /\ [][MockNext]_vars

\* ======================================================= daemon shutdown
\* The end of Run (app.go:141-172) for the daemon whose cliService the Unlock
\* handlers and start goroutines above belong to.  The goroutines are not
\* tied to the gRPC server or to Run's context: they go on after either.

\* ctx.Done() and grpcSrv.GracefulStop(), which waits for the handlers in
\* flight, or Serve returning (app.go:142-151).
ShutServerStop ==
    /\ shut.pc = "running"
    /\ \A c \in Clients : ul[c].pc = "idle"
    /\ shut' = [shut EXCEPT !.pc = "getNode"]
    /\ UNCHANGED <<baseVars, unlockVars, daemonVars, pinVars, peerVars, keyVars, torVars,
                   mockVars, heldVars, kfVars, lhcVars, linkVars>>

\* svc.getNode() under the read lock (app.go:154, 184-188).
ShutGetNode ==
    /\ shut.pc = "getNode"
    /\ svcMu = Free
    /\ shut' = [shut EXCEPT !.pc = "stopNode", !.seen = svcNode]
    /\ UNCHANGED <<baseVars, unlockVars, daemonVars, pinVars, peerVars, keyVars, torVars,
                   mockVars, heldVars, kfVars, lhcVars, linkVars>>

\* n.Stop() if a node was attached, the removal of the key files and of the
\* lock, and the return (app.go:154-171).
ShutStopNode ==
    /\ shut.pc = "stopNode"
    /\ shut' = [shut EXCEPT !.pc = "returned",
                            !.stopped = IF shut.seen # 0 THEN {shut.seen} ELSE {}]
    /\ UNCHANGED <<baseVars, unlockVars, daemonVars, pinVars, peerVars, keyVars, torVars,
                   mockVars, heldVars, kfVars, lhcVars, linkVars>>

ShutNext ==
    \/ shut.pc = "running" /\ \E c \in Clients : Unlock(c)
    \/ \E t \in Tasks : StartTask(t)
    \/ ShutServerStop
    \/ ShutGetNode
    \/ ShutStopNode

ShutSpec == Init /\ [][ShutNext]_vars

\* ============================================================= key files
\* WriteKeys and ReadKeys of package clitls on one directory, whose files
\* can also be removed or replaced from outside.

\* x509.MarshalPKIXPublicKey of an ed25519.PublicKey.
MarshalPKIXPublicKey(pub) == [fmt |-> "pkix", alg |-> "ed25519", key |-> pub]

\* x509.MarshalPKCS8PrivateKey of an ed25519.PrivateKey: only the seed is stored.
MarshalPKCS8PrivateKey(priv) == [fmt |-> "pkcs8", alg |-> "ed25519", key |-> SeedOf(priv)]

ParseErr == [err |-> TRUE, alg |-> "none", key |-> <<>>]

\* x509.ParsePKIXPublicKey: the key with its type, or an error.
ParsePKIXPublicKey(der) ==
    IF der.fmt # "pkix" THEN ParseErr
    ELSE IF der.alg = "ed25519" /\ Len(der.key) # KeyBytes THEN ParseErr
    ELSE [err |-> FALSE, alg |-> der.alg, key |-> der.key]

\* x509.ParsePKCS8PrivateKey: an Ed25519 key is rebuilt from the stored seed.
ParsePKCS8PrivateKey(der) ==
    IF der.fmt # "pkcs8" THEN ParseErr
    ELSE IF der.alg = "ed25519"
    THEN IF Len(der.key) # KeyBytes THEN ParseErr
         ELSE [err |-> FALSE, alg |-> "ed25519", key |-> PrivateKeyOf(der.key)]
    ELSE [err |-> FALSE, alg |-> der.alg, key |-> der.key]

\* WriteKeys (clitls.go:77-98): the two files.
WriteKeys(serverPub, clientPriv) ==
    [serverPub |-> PemFile("PUBLIC KEY", MarshalPKIXPublicKey(serverPub)),
     clientKey |-> PemFile("PRIVATE KEY", MarshalPKCS8PrivateKey(clientPriv))]

ReadFailed == [called |-> TRUE, err |-> TRUE, pub |-> <<>>, priv |-> <<>>]

\* A reader that accepts a PEM block of any type.
BlockOk_AnyType(file, type) == file.pem

\* pem.Decode found a block of the expected type (clitls.go:106-109, 123-126).
BlockOk(file, type) == file.pem /\ file.type = type

\* ReadKeys (clitls.go:101-136).
ReadKeys(spub, ckey) ==
    IF ~spub.exists THEN ReadFailed
    ELSE IF ~BlockOk(spub, "PUBLIC KEY") THEN ReadFailed
    ELSE LET pubIf == ParsePKIXPublicKey(spub.der) IN
    IF pubIf.err THEN ReadFailed
    ELSE IF pubIf.alg # "ed25519" THEN ReadFailed
    ELSE IF ~ckey.exists THEN ReadFailed
    ELSE IF ~BlockOk(ckey, "PRIVATE KEY") THEN ReadFailed
    ELSE LET keyIf == ParsePKCS8PrivateKey(ckey.der) IN
    IF keyIf.err THEN ReadFailed
    ELSE IF keyIf.alg # "ed25519" THEN ReadFailed
    ELSE [called |-> TRUE, err |-> FALSE, pub |-> pubIf.key, priv |-> keyIf.key]

KfWrite(pubSeed, privSeed) ==
    /\ LET pub == PublicOf(pubSeed)
           priv == PrivateKeyOf(privSeed)
           files == WriteKeys(pub, priv)
       IN  kf' = [serverPub |-> files.serverPub, clientKey |-> files.clientKey,
                  wrote |-> [pub |-> pub, priv |-> priv], clean |-> TRUE, ret |-> NoRead]
    /\ UNCHANGED kfRest

\* What a file can be replaced with from outside: nothing, text without a PEM
\* block, and PEM blocks of either type around encodings of either kind, of an
\* Ed25519 key, of a key of another type, of a key of the wrong size, or around
\* bytes that are no encoding.
Ders ==
    {[fmt |-> f, alg |-> a, key |-> k] :
        f \in {"pkix", "pkcs8"}, a \in {"ed25519", "ecdsa"},
        k \in {[i \in 1..KeyBytes |-> 1], [i \in 1..(KeyBytes + 1) |-> 1]}} \cup {NoDer}
Files ==
    {Absent, Garbage} \cup
    {PemFile(t, d) : t \in {"PUBLIC KEY", "PRIVATE KEY", "CERTIFICATE"}, d \in Ders}

KfReplace(name, file) ==
    /\ kf[name] # file
    /\ kf' = [kf EXCEPT ![name] = file, !.clean = FALSE, !.ret = NoRead]
    /\ UNCHANGED kfRest

KfRead ==
    /\ kf' = [kf EXCEPT !.ret = ReadKeys(kf.serverPub, kf.clientKey)]
    /\ UNCHANGED kfRest

KfNext ==
    \/ \E pubSeed \in KfSeeds, privSeed \in KfSeeds : KfWrite(pubSeed, privSeed)
    \/ \E name \in {"serverPub", "clientKey"}, file \in Files : KfReplace(name, file)
    \/ KfRead

KfSpec == Init /\ [][KfNext]_vars

\* ================================================================ claims
Returned(d) == dl[d].pc = "idle" /\ dl[d].ret # NoConn
Pooled(c) == \E a \in Addrs : conns[a] # NoEntry /\ conns[a].conn = c
InFlight(c) == \E d \in Dialers : dl[d].conn = c
EvictorRunning(k) == ev[k].pc \in {"select", "lock", "scan"}
Quiet == \A l \in Callers : ~Busy(l)

\* C1 (as stated): two overlapping getConn calls for one address that both
\* succeed return the same connection handle.
C1_SameHandle ==
    \A d, e \in Dialers :
        (d # e /\ Returned(d) /\ Returned(e) /\ dl[d].addr = dl[e].addr /\ e \in dl[d].conc)
            => dl[d].ret = dl[e].ret

\* C1 (amended): two getConn calls for one address that both succeed return
\* the same handle unless the pool has closed one of the two (its entry was
\* evicted in between): callers never hold two different connections to one
\* address that the pool has both left open.
C1_OneLiveHandle ==
    \A d, e \in Dialers :
        (d # e /\ Returned(d) /\ Returned(e) /\ dl[d].addr = dl[e].addr)
            => \/ dl[d].ret = dl[e].ret
               \/ dl[d].ret \in closed
               \/ dl[e].ret \in closed

\* Two overlapping calls both dialed, and both came back with the one handle
\* that is pooled and open.
C1_Witness ==
    \E d, e \in Dialers :
        /\ d # e /\ Returned(d) /\ Returned(e) /\ e \in dl[d].conc
        /\ dl[d].ret = dl[e].ret
        /\ dl[d].ret \notin closed
        /\ Pooled(dl[d].ret)
        /\ nconn = 2

\* C2: every connection a getConn call has dialed is, once that call has
\* returned, the pool's entry for its address or closed.
C2_NoLeak ==
    \A i \in 1..nconn : \E a \in Addrs :
        LET c == [a |-> a, id |-> i] IN InFlight(c) \/ Pooled(c) \/ c \in closed

\* A late dialer has closed its own connection and returned the winner's,
\* which is still the pool's entry, on a node that was never stopped.
C2_Witness ==
    \E d \in Dialers : \E c \in closed :
        /\ Returned(d) /\ ~stopped /\ Quiet
        /\ c.a = dl[d].addr /\ c # dl[d].ret
        /\ conns[dl[d].addr].conn = dl[d].ret

\* C3: one scan of evictIdle, called at time t, closes and removes exactly
\* the entries last used before t minus the idle threshold, and leaves every
\* other entry in the pool, open.
C3_Step(k) ==
    /\ (ev[k].pc = "select" /\ ev'[k].pc = "lock") => ev'[k].cutoff = now - IdleMinutes
    /\ (ev[k].pc = "scan" /\ ev'[k].pc = "select") =>
          \A a \in Addrs :
              IF conns[a] # NoEntry /\ conns[a].lastUsed < ev[k].cutoff
              THEN conns'[a] = NoEntry /\ conns[a].conn \in closed'
              ELSE conns'[a] = conns[a] /\ (conns[a].conn \in closed' <=> conns[a].conn \in closed)

C3_EvictionSelective == [][\A k \in Servers : C3_Step(k)]_vars

\* A scan has evicted the only connection to one address while the entry of
\* the other address, used within the window, is still pooled and open.
C3_Witness ==
    \E a, b \in Addrs : \E i \in 1..nconn :
        /\ a # b /\ nconn = 2
        /\ conns[a] = NoEntry /\ [a |-> a, id |-> i] \in closed
        /\ conns[b] # NoEntry /\ conns[b].conn \notin closed
        /\ now - conns[b].lastUsed <= IdleMinutes

\* C4: while the node stays started (its evictor running), a pooled
\* connection that is not used again is eventually closed and removed by the
\* evictor.  The entries are those old enough for the model's clock to reach
\* their threshold.
C4_EvictionLive ==
    \A a \in Addrs : \A i \in 1..MaxConns : \A t \in 0..(MaxClock - IdleMinutes - 1) :
        LET c == [a |-> a, id |-> i] IN
        (/\ stop # 0 /\ \E k \in Servers : k = stop /\ EvictorRunning(k)
         /\ now < MaxClock
         /\ conns[a] = [conn |-> c, lastUsed |-> t])
            ~> \/ c \in closed /\ conns[a].conn # c
               \/ conns[a].conn = c /\ conns[a].lastUsed # t
               \/ stop = 0

\* The evictor has closed and removed a connection on a node that was
\* started once and never stopped.
C4_Witness ==
    /\ stop # 0 /\ ~stopped /\ Quiet
    /\ \E c \in closed : ~Pooled(c) /\ conns[c.a] = NoEntry

\* C5 (as stated): once Stop has returned and every getConn call that was in
\* flight has returned, the pool is empty and every connection dialed for it
\* has been closed.
C5_StopEmptiesPool ==
    (stopped /\ stop = 0 /\ Quiet /\ ~lateCall /\ \A d \in Dialers : ~InCall(d))
        => /\ \A a \in Addrs : conns[a] = NoEntry
           /\ \A i \in 1..nconn : \E a \in Addrs : [a |-> a, id |-> i] \in closed

NoEvictorRunning == \A k \in Servers : ~EvictorRunning(k)

NotStartedShape ==
    /\ stop = 0
    /\ nodes[SelfAddr] \notin Servers
    /\ evictStop = 0 /\ evictDone = 0
    /\ NoEvictorRunning

StartedShape ==
    /\ stop \in Servers
    /\ nodes[SelfAddr] = stop
    /\ evictStop = stop /\ evictDone = stop
    /\ \A k \in Servers : EvictorRunning(k) <=> k = stop

nodeVars == <<nodes, serving, nsrv, stop, unreg, conns, closed, mu, evictStop, evictDone,
              stopClosed, doneClosed, ev>>

\* C8: a Start call that finds the node started returns AlreadyStarted and
\* changes nothing of the node: no server is created or registered, n.stop is
\* kept and no evictor is started.
C8_Step(l) ==
    (/\ lc[l].pc = "idle" /\ stop # 0
     /\ \/ lc'[l].pc = "register"
        \/ lc'[l] # lc[l] /\ lc'[l].ret \in {"AlreadyStarted", "CertErr"})
        => /\ lc'[l].pc = "idle" /\ lc'[l].ret = "AlreadyStarted"
           /\ UNCHANGED nodeVars

C8_AlreadyStarted == [][\A l \in Callers : C8_Step(l)]_vars

\* A Start has been refused on the started node.
C8_Witness ==
    \E l \in Callers :
        lc[l].pc = "idle" /\ lc[l].ret = "AlreadyStarted" /\ StartedShape /\ nsrv = 1 /\ ~raced

\* C9: a Stop call that finds n.stop nil returns nil and changes nothing, and
\* when calls do not overlap each successful Start's unregister is invoked
\* exactly once: by the Stop that follows it.
C9_Step(l) ==
    (/\ lc[l].pc = "idle" /\ stop = 0
     /\ \/ lc'[l].pc = "sevLock"
        \/ lc'[l] # lc[l] /\ lc'[l].ret = "noop")
        => /\ lc'[l].pc = "idle" /\ lc'[l].ret = "noop"
           /\ UNCHANGED nodeVars

C9_UnregOnce ==
    ~raced => \A k \in Servers :
        /\ unreg[k] <= 1
        /\ Quiet => unreg[k] = (IF ev[k].pc # "none" /\ stop # k THEN 1 ELSE 0)

C9_StopIdempotent == [][\A l \in Callers : C9_Step(l)]_vars /\ []C9_UnregOnce

\* A Stop after the first was a no-op: unregister has still been called once.
C9_Witness ==
    \E l \in Callers :
        lc[l].ret = "noop" /\ Quiet /\ stopped /\ ~raced /\ stop = 0 /\ unreg[1] = 1

\* C10 (as stated): a Start that returned an error has left nothing behind:
\* every server a Start created is that of a call still running, that of the
\* started node, or neither serving nor registered nor evicting.
C10_StartAtomic ==
    ~raced => \A k \in 1..nsrv :
        \/ \E l \in Callers : Busy(l) /\ lc[l].srv = k
        \/ stop = k
        \/ k \notin serving /\ nodes[SelfAddr] # k /\ ~EvictorRunning(k)

\* An Unlock handler finishes its checks in this step.
Decides(c) == ul[c].pc = "locked" /\ ul'[c].pc = "ret"

\* C11: the first Unlock on a directory without a fingerprint file succeeds
\* and stores the hex fingerprint of its password; an Unlock with the
\* password whose fingerprint is stored passes the check; and every Unlock
\* that passed has the stored fingerprint (I/O errors apart, which fail the
\* call with Internal).
C11_Step(c) ==
    (Decides(c) /\ svcNode = 0 /\ ul'[c].ret # "Internal") =>
        /\ ~fpFile.exists =>
              /\ ul'[c].ret = "OK"
              /\ fpFile' = FileOf(HexFingerprint(ul[c].pw) \o <<"\n">>)
        /\ (fpFile.exists /\ fpFile.data = HexFingerprint(ul[c].pw) \o <<"\n">>) =>
              /\ ul'[c].ret = "OK"
              /\ fpFile' = fpFile
        /\ ul'[c].ret = "OK" =>
              /\ fpFile' = FileOf(HexFingerprint(ul[c].pw) \o <<"\n">>)
              /\ fpFile.exists => fpFile' = fpFile

C11_Passed ==
    \A c \in Clients : ul[c].ret = "OK" =>
        fpFile = FileOf(HexFingerprint(ul[c].pw) \o <<"\n">>)

C11_FingerprintGate == [][\A c \in Clients : C11_Step(c)]_vars /\ []C11_Passed

\* The second launch was made by an Unlock that found the stored fingerprint
\* equal to its own, while another password was turned away.
C11_Witness ==
    \E c, e \in Clients :
        /\ ul[c].ret = "OK" /\ ul[c].task = 2 /\ ul[c].pc = "idle"
        /\ ul[e].ret = "PermissionDenied"
        /\ fpFile = FileOf(HexFingerprint(ul[c].pw) \o <<"\n">>)

\* C12: an Unlock whose fingerprint differs from the stored one fails with
\* the mismatch error and changes nothing: the file, the start goroutines
\* and the attached node are as before, and no node is attached.
C12_Step(c) ==
    (/\ Decides(c) /\ svcNode = 0
     /\ fpFile.exists /\ fpFile.data # HexFingerprint(ul[c].pw) \o <<"\n">>)
        => /\ ul'[c].ret \in {"PermissionDenied", "Internal"}
           /\ ul'[c].task = 0
           /\ UNCHANGED <<fpFile, tasks, ntask, svcNode>>
           /\ svcNode' = 0

C12_WrongPassword == [][\A c \in Clients : C12_Step(c)]_vars

\* A wrong password has been turned away on a directory another password
\* initialised.
C12_Witness ==
    \E c \in Clients : \E pw \in Passwords :
        /\ ul[c].pc = "idle" /\ ul[c].ret = "PermissionDenied" /\ ul[c].pw # pw
        /\ fpFile = FileOf(HexFingerprint(pw) \o <<"\n">>)
        /\ svcNode = 0

\* C13: an Unlock that finds a node attached fails with AlreadyUnlocked and
\* changes neither the attached node, nor the file, nor the start goroutines.
C13_Step(c) ==
    (Decides(c) /\ svcNode # 0)
        => /\ ul'[c].ret = "AlreadyUnlocked"
           /\ ul'[c].task = 0
           /\ UNCHANGED <<fpFile, tasks, ntask, svcNode>>

C13_AlreadyUnlocked == [][\A c \in Clients : C13_Step(c)]_vars

\* An Unlock with the right password has been refused on the unlocked daemon.
C13_Witness ==
    \E c \in Clients :
        /\ ul[c].pc = "idle" /\ ul[c].ret = "AlreadyUnlocked"
        /\ svcNode # 0 /\ tasks[svcNode].pw = ul[c].pw

\* C14: Unlock does not wait for its goroutine: when it returns OK no node is
\* attached; a goroutine that fails leaves the daemon unattached by it and
\* the file as it was; and an Unlock with the same password after the
\* failure is accepted and launches a new goroutine.
C14_Returning ==
    \A c \in Clients : (ul[c].pc = "ret" /\ ul[c].ret = "OK") =>
        /\ svcNode = 0
        /\ tasks[ul[c].task].pc \in {"new", "start", "failed", "attachLock"}

C14_Attached == svcNode # 0 => tasks[svcNode].pc = "done"

C14_Fail(t) ==
    (tasks[t].pc \in {"new", "start"} /\ tasks'[t].pc = "failed")
        => UNCHANGED <<svcNode, svcMu, fpFile>>

C14_Final(t) == tasks[t].pc = "failed" => tasks'[t].pc = "failed"

C14_Retry(c) ==
    (/\ Decides(c) /\ svcNode = 0 /\ ul'[c].ret # "Internal"
     /\ FailedFor(ul[c].pw) # {})
        => /\ ul'[c].ret = "OK"
           /\ ntask' = ntask + 1
           /\ tasks'[ntask + 1].pc = "new" /\ tasks'[ntask + 1].pw = ul[c].pw

C14_AsyncRetry ==
    /\ [](C14_Returning /\ C14_Attached)
    /\ [][/\ \A t \in Tasks : C14_Fail(t) /\ C14_Final(t)
          /\ \A c \in Clients : C14_Retry(c)]_vars

\* An Unlock has returned while its goroutine had not started the node; the
\* goroutine then failed, and an Unlock with the same password launched
\* another one.
C14_Witness ==
    \E c \in Clients :
        /\ ul[c].pc = "idle" /\ ul[c].ret = "OK" /\ ul[c].task = 2
        /\ tasks[2].retry /\ tasks[2].pc = "start"
        /\ tasks[1].pc = "failed" /\ tasks[1].pw = ul[c].pw
        /\ svcNode = 0

\* A daemon is past acquireDirLock and has not released the lock.
PastLock(p) == dmn[p].pc \in {"keys", "listen", "serving", "rmKeys", "unlock"}

\* C15 (as stated): at most one daemon at a time is past the lock on a data
\* directory, and a daemon that reaches the lock while another one holds it
\* returns the lock-held error.
C15_SingleDaemon == Cardinality({p \in Daemons : PastLock(p)}) <= 1

\* The server's certificate carries the key the client pins, and the client's
\* certificate carries the key the server pins.
PinsMatch ==
    /\ hs.srvCert.alg = "ed25519" /\ hs.srvCert.pub = hs.expServer
    /\ hs.cliCert.alg = "ed25519" /\ hs.cliCert.pub = hs.expClient

\* C16  Control-plane TLS is mutually pinned: a connection is established, on
\* the client's side (the dial returns it) or on the server's side (the server
\* accepts it), only if the server's key is the one the client pins and the
\* client's key is the one the server pins; with both pins matching the
\* attempt never fails, and a failed attempt has a mismatch and leaves no
\* connection on either side.
C16_MutualPinning ==
    /\ (hs.cliReady \/ hs.srvReady) => PinsMatch
    /\ hs.pc = "failed" => ~PinsMatch /\ ~hs.cliReady /\ ~hs.srvReady
    /\ hs.pc = "done" => hs.cliReady /\ hs.srvReady
    /\ PinsMatch /\ hs.pc # "idle" => ENABLED (HsClientVerify \/ HsServerVerify \/ HsClientReady \/ HsClose)

C16_Witness ==
    /\ hs.pc = "done"
    /\ hs.cliReady /\ hs.srvReady
    /\ hs.srvCert.pub # hs.cliCert.pub

\* C17 (as stated)  A connection DialPeer(addr) has pooled is connected to a
\* server whose certificate key is the key of the address that was dialed.
C17_DialPinned ==
    \A n \in PeerNodes, a \in PeerAddrs :
        peerConns[n][a].open /\ peerConns[n][a].srv # 0 =>
            OnionAddr(ServerCertPub(peerConns[n][a].srv)) = a

\* A HealthCheck call of n on its connection to the address of m.
C18_Call(n, m) ==
    /\ {n, m} \subseteq up
    /\ ~outsider
    /\ peerConns[n][NodeAddr(m)].srv # 0
    /\ PeerHealthCheck(n, NodeAddr(m))

C18_Step ==
    \A n \in PeerNodes : \A m \in PeerNodes \ {n} :
        C18_Call(n, m) =>
            /\ hc'[n].ok
            /\ hc'[n].client = NodeAddr(n)
            /\ hc'[n].server = NodeAddr(m)

\* C18  With two started Nodes alone on a shared in-memory transport, a
\* HealthCheck that N1 makes on its connection to N2's address succeeds and
\* reports N1's address as the caller and N2's as the callee, and the same with
\* the two exchanged.
C18_EndToEndIdentity == [][C18_Step]_vars

C18_Witness ==
    /\ ~outsider
    /\ up = PeerNodes
    /\ \A n \in PeerNodes : \E m \in PeerNodes \ {n} :
          /\ hc[n].op = "health" /\ hc[n].ok
          /\ hc[n].to = NodeAddr(m)
          /\ hc[n].client = NodeAddr(n) /\ hc[n].server = NodeAddr(m)
          /\ NodeAddr(n) # NodeAddr(m)

C20_DialNeedsRegister ==
    /\ registered = {} /\ dial.ret # "none" => dial.ret = "TransportUnavailable"
    /\ registered = {} => torNet.t = 0
    /\ torNet.t # 0 => torNet.t \in registered
    /\ \A i \in torOpen : i \in registered \/ (reg.pc = "listen" /\ reg.inst = i)

C20_Witness ==
    /\ registered = {}
    /\ ntor > 0 /\ torOpen = {}
    /\ dial.after = "ListenErr"
    /\ dial.ret = "TransportUnavailable"
    /\ IsOnion(dial.addr)

\* C21  In the in-memory backend a Dial succeeds only for an address that was
\* registered when Dial looked it up (a Register for it succeeded and its
\* unregister had not been called), and a Dial that looks up an address with no
\* such registration, never registered or unregistered, fails with
\* UnknownAddress; the map holds an address exactly as long.
C21_DialOnlyRegistered ==
    /\ mock.dial.ret = "ok" => mock.dial.live
    /\ mock.dial.addr # "none" /\ ~mock.dial.live => mock.dial.ret = "UnknownAddress"
    /\ \A a \in Addrs : mock.nodes[a] # 0 =>
          /\ mock.addrOf[mock.nodes[a]] = a
          /\ mock.nodes[a] \notin mock.called

C21_Witness ==
    /\ mock.dial.ret = "UnknownAddress"
    /\ \E i \in 1..mock.nreg : mock.addrOf[i] = mock.dial.addr /\ i \in mock.called \ mock.un
    /\ \E a \in Addrs : mock.nodes[a] # 0

\* C22 (as stated)  Over the lifetime of one TorNetwork the tor client process
\* is started at most once, whatever Register, unregister and Dial calls are
\* made.
C22_TorStartedOnce == ntor <= 1

\* The Node of start goroutine t has been started (node.Start returned nil).
NodeStarted(t) == tasks[t].pc \in {"attachLock", "attach", "done"}

\* C23 (as stated)  When Run has returned, every Node a start goroutine
\* started has been stopped, and no start goroutine is still on its way to
\* start or attach one.
C23_ShutdownJoins ==
    shut.pc = "returned" =>
        \A t \in Tasks :
            /\ NodeStarted(t) => t \in shut.stopped
            /\ tasks[t].pc \notin {"new", "start"}

\* Run of daemon p has returned after it had written the key files.
ReturnedAfterKeys(p) == dmn[p].pc = "off" /\ dmn[p].ret \in {"ListenErr", "stopped"}

\* C24 (as stated)  Whenever Run has returned after writing the key files,
\* the client key file and the server key file it wrote no longer exist and
\* it no longer holds the directory lock.
C24_KeysEphemeral ==
    \A p \in Daemons :
        ReturnedAfterKeys(p) =>
            /\ cliDir.clientKey # p
            /\ cliDir.serverPub # p
            /\ \A i \in Inodes : flockOf[i] # p

\* A byte string that was discarded (nil) or overwritten with zeros.
Wiped(bytes) == \A i \in DOMAIN bytes : bytes[i] = 0

\* C25 (as stated)  Once a Stop that stopped the Node has returned, the Node
\* holds neither the master secret nor the identity private key.
C25_SecretsGone == stopped => Wiped(held.masterPriv) /\ Wiped(held.priv)

\* A stored file that is missing, holds no PEM block of the type wanted, or
\* whose block is not the wanted encoding of an Ed25519 key.
Unusable(file, type, fmt) ==
    \/ ~file.exists
    \/ ~file.pem
    \/ file.type # type
    \/ file.der.fmt # fmt
    \/ file.der.alg # "ed25519"
    \/ Len(file.der.key) # KeyBytes

\* C26  ReadKeys after WriteKeys, with the files as written, returns exactly
\* the server public key and the client private key that were written; and
\* when either file is missing, is not the expected PEM block or does not
\* parse into an Ed25519 key, ReadKeys returns an error and no keys.
C26_KeysRoundTrip ==
    kf.ret.called =>
        /\ kf.clean => ~kf.ret.err /\ kf.ret.pub = kf.wrote.pub /\ kf.ret.priv = kf.wrote.priv
        /\ Unusable(kf.serverPub, "PUBLIC KEY", "pkix") \/ Unusable(kf.clientKey, "PRIVATE KEY", "pkcs8")
              => kf.ret.err /\ kf.ret.pub = <<>> /\ kf.ret.priv = <<>>

C26_Witness ==
    /\ kf.ret.called /\ kf.clean /\ ~kf.ret.err
    /\ kf.ret.pub = kf.wrote.pub /\ kf.ret.priv = kf.wrote.priv
    /\ Len(kf.ret.priv) = KeyBytes + KeyBytes
    /\ kf.ret.pub # PublicOf(SeedOf(kf.ret.priv))

\* C27  DeriveMasterPriv gives a master secret of the full length for every
\* input, the empty string included, and has no error; DeriveEd25519FromMaster
\* with an empty master secret fails and returns no keys; DeriveKey returns
\* the requested number of bytes or an error with no key, never a shorter key.
C27_DerivationErrors ==
    \A i \in DOMAIN derived :
        LET c == derived[i] IN
        /\ c.fn = "DeriveMasterPriv" => ~c.err /\ Len(c.out) = KeyBytes
        /\ c.fn = "DeriveEd25519FromMaster" /\ c.master = <<>> =>
              c.err /\ c.priv = <<>> /\ c.pub = <<>>
        /\ c.fn = "DeriveEd25519FromMaster" /\ ~c.err =>
              Len(c.priv) = KeyBytes /\ Len(c.pub) = KeyBytes
        /\ c.fn = "DeriveKey" => IF c.err THEN c.out = <<>> ELSE Len(c.out) = c.keyLen

C27_Witness ==
    /\ Len(derived) = 2
    /\ derived[1].fn = "DeriveEd25519FromMaster" /\ derived[1].master = <<>> /\ derived[1].err
    /\ derived[2].fn = "DeriveKey" /\ derived[2].master = <<>>
    /\ derived[2].keyLen = HkdfLimit /\ Len(derived[2].out) = HkdfLimit

C29_Reuse(d) ==
    /\ dl[d].pc \in {"fastTouch", "publish"}
    /\ conns[dl[d].addr] # NoEntry
    /\ dl'[d].ret = conns[dl[d].addr].conn

C29_RefreshOnReuse ==
    [][\A d \in Dialers : C29_Reuse(d) => conns'[dl[d].addr].lastUsed = now']_vars

\* C30  No getConn holds the pool lock while it dials: while one call is
\* dialing address A, the lock is free or held by someone else who can release
\* it at once, so a getConn for another address B, an eviction scan and Stop's
\* close-all can each take the lock and complete without waiting for the dial.
C30_DialOutsideLock ==
    \A d \in Dialers : dl[d].pc = "dial" =>
        /\ mu # Holder("dial", d)
        /\ mu = Free =>
              /\ \A e \in Dialers \ {d} : \A b \in Addrs \ {dl[d].addr} :
                    dl[e].pc = "idle" => ENABLED GetConnLookup(e, b)
              /\ \A e \in Dialers \ {d} :
                    dl[e].pc \in {"fastLock", "pubLock"} => ENABLED GetConn(e)
              /\ \A k \in Servers : ev[k].pc = "lock" => ENABLED EvictorLock(k)
              /\ \A l \in Callers : lc[l].pc = "closeLock" => ENABLED StopCloseLock(l)
        /\ mu.kind = "dial" => ENABLED GetConn(mu.id)
        /\ mu.kind = "evict" => ENABLED EvictorScan(mu.id)
        /\ mu.kind = "call" => ENABLED (Start(mu.id) \/ Stop(mu.id))

\* Dialer 1 is still dialing A; meanwhile dialer 2 began and finished a
\* getConn for B, and Stop closed the pool.
C30_Witness ==
    /\ dl[1].pc = "dial"
    /\ 2 \in dl[1].conc
    /\ dl[2].pc = "idle" /\ dl[2].ret # NoConn /\ dl[2].addr # dl[1].addr
    /\ stopped /\ ~lateCall
    /\ dl[2].ret \in closed

\* C31 (as stated)  The started/stopped flag n.stop is accessed under mutual
\* exclusion: of two overlapping Start calls only one gets past the check and
\* calls Register, and of two overlapping Stop calls only one calls the
\* unregister closure, so no registration is unregistered twice and no Stop
\* finds the closure gone.
C31_FlagExclusive ==
    /\ Cardinality({l \in Callers : lc[l].pc \in {"register", "setStop"}}) <= 1
    /\ Cardinality({l \in Callers : lc[l].pc \in {"unreg", "clear"}}) <= 1
    /\ \A k \in Servers : unreg[k] <= 1
    /\ ~Crashed

\* C32 (as stated)  Stop joins the eviction task: at the step where a Stop
\* returns, every evictor goroutine that was told to stop has exited.
C32_StopJoinsEvictor ==
    [][\A l \in Callers :
          (lc[l].pc = "closeAll" /\ lc'[l].pc = "idle") =>
              \A k \in stopClosed' : ev'[k].pc \notin {"select", "lock", "scan"}]_vars

\* C33 (as stated)  At most one Node per daemon: at most one node-start
\* goroutine is in flight at a time, at most one Node is ever started, and an
\* attached Node is never replaced by another.
C33_InFlight == {t \in Tasks : tasks[t].pc \in {"new", "start", "attachLock", "attach"}}

C33_Started == {t \in Tasks : tasks[t].pc \in {"attachLock", "attach", "done"}}

C33_OneNodePerDaemon ==
    /\ [](Cardinality(C33_InFlight) <= 1 /\ Cardinality(C33_Started) <= 1)
    /\ [][svcNode # 0 => svcNode' = svcNode]_vars

\* C34  Pool entries are open: whenever the pool lock is not held, no
\* connection stored in the map has been closed by eviction, Stop or a
\* redundant-dial discard, and the handle a getConn selects from the map is
\* not closed at that moment.
C34_PoolEntriesOpen ==
    /\ mu = Free => \A a \in Addrs : conns[a] # NoEntry => conns[a].conn \notin closed
    /\ \A d \in Dialers :
          (dl[d].pc \in {"fastTouch", "publish"} /\ conns[dl[d].addr] # NoEntry) =>
              conns[dl[d].addr].conn \notin closed

\* An address is pooled again with an open connection after its earlier
\* connection was closed, and a dialer is about to take the pooled handle.
C34_Witness ==
    \E a \in Addrs :
        /\ conns[a] # NoEntry
        /\ \E c \in closed : c.a = a /\ c # conns[a].conn
        /\ \E d \in Dialers : dl[d].pc = "fastTouch" /\ dl[d].addr = a
        /\ \E k \in Servers : ev[k].pc = "select"

\* C35 (as stated)  Single eviction task: at every moment at most one evictor
\* goroutine of the Node is running, and one is running only between a
\* successful Start and the following Stop, that is while n.stop is the
\* unregister function of the registration it was started for.
C35_SingleEvictor ==
    /\ Cardinality({k \in Servers : EvictorRunning(k)}) <= 1
    /\ \A k \in Servers : EvictorRunning(k) => stop = k

\* C36 (as stated)  A second start does not disturb the running daemon: while
\* a daemon is serving, its lock file and the two key files it wrote are
\* present in the directory and unmodified, whatever another bbd started on
\* the same data directory does.
C36_RunningUndisturbed ==
    \A p \in Daemons :
        Serving(p) =>
            /\ cliDir.dir
            /\ cliDir.lock = dmn[p].fd
            /\ cliDir.clientKey = p
            /\ cliDir.serverPub = p

\* An Ed25519 client public key can be extracted from the call's handshake
\* state: the context has TLS auth info whose leaf certificate carries one.
C37_HasEd25519Key(ctx) ==
    /\ ctx.peer
    /\ ctx.auth \in {"TLSInfo", "*TLSInfo"}
    /\ ctx.certs # <<>>
    /\ ctx.certs[1].alg = "ed25519"

\* C37  The peer-link server accepts a handshake from any client that
\* presents a certificate, whatever its key, and rejects a client presenting
\* none; HealthCheck returns Unauthenticated and no caller address whenever no
\* Ed25519 client public key can be extracted from the call's handshake state.
C37_AnyCertThenRpcAuth ==
    /\ link.accepted <=> link.cert # NoCert
    /\ link.state = "open" => link.cert # NoCert
    /\ link.resp # NoResp =>
          IF C37_HasEd25519Key(link.ctx)
          THEN /\ link.resp.code = "OK"
               /\ link.resp.client = OnionAddr(link.ctx.certs[1].pub)
               /\ link.resp.server = link.addr
          ELSE /\ link.resp.code = "Unauthenticated"
               /\ link.resp.client = <<>>

\* The handshake accepted a certificate whose key is not Ed25519, and the
\* HealthCheck on that connection was refused.
C37_Witness ==
    /\ link.state = "open" /\ link.accepted
    /\ link.cert.alg = "ecdsa"
    /\ link.ctx.certs = <<link.cert>>
    /\ link.resp.code = "Unauthenticated"

\* A well-formed onion destination: a host name whose last label is .onion,
\* alone or followed by a port.
C38_Ports == {"80", "9735"}

C38_OnionHost(host) ==
    /\ Len(host) >= 2
    /\ host[Len(host)] = ".onion"
    /\ \A i \in DOMAIN host : host[i] \notin Space \cup {":"}

C38_WellFormed(addr) ==
    LET a == TrimSpace(addr) IN
    \/ C38_OnionHost(a)
    \/ /\ Len(a) >= 4
       /\ a[Len(a) - 1] = ":" /\ a[Len(a)] \in C38_Ports
       /\ C38_OnionHost(SubSeq(a, 1, Len(a) - 2))

\* C38 (as stated)  On a started Tor backend, Dial rejects every address that
\* is not a well-formed .onion destination without attempting a connection;
\* an accepted address without a port is dialed at port 80, and one with a
\* port at that port, unchanged.
C38_DialAddressHandling ==
    dial.ret \notin {"none", "TransportUnavailable"} =>
        /\ ~C38_WellFormed(dial.addr) => dial.ret = "BadAddress" /\ dial.target = <<>>
        /\ dial.target # <<>> =>
              LET a == TrimSpace(dial.addr) IN
              dial.target = IF a[Len(a)] \in C38_Ports /\ a[Len(a) - 1] = ":"
                            THEN a ELSE a \o <<":", "80">>

\* C39  In the in-memory backend a Register for an address that is already
\* registered fails and leaves the registry as it was: Dials to that address
\* still reach the listener of the registration that holds it, and the
\* rejected server is never reachable through the registry.
C39_Step ==
    (mock'.nreg = mock.nreg + 1 /\ mock.nodes[mock'.lastReg.addr] # 0) =>
        /\ mock'.lastReg.ret = "AlreadyRegistered"
        /\ mock'.nodes = mock.nodes
        /\ mock'.lastReg.id \in mock'.rejected

C39_Unreachable ==
    /\ \A a \in Addrs : mock.nodes[a] \notin mock.rejected
    /\ mock.dial.svc \notin mock.rejected
    /\ mock.dial.svc # 0 => mock.addrOf[mock.dial.svc] = mock.dial.addr

C39_DuplicateRegister == [][C39_Step]_vars /\ []C39_Unreachable

\* After a second Register for a registered address was refused, a Dial to
\* the address has reached the first registration's listener.
C39_Witness ==
    /\ mock.lastReg.ret = "AlreadyRegistered"
    /\ mock.lastReg.id = 2 /\ mock.rejected = {2}
    /\ mock.dial.addr = mock.lastReg.addr
    /\ mock.dial.ret = "ok" /\ mock.dial.svc = 1

====
